---- MODULE Spec2Model ----
(***************************************************************************)
(* Verification model of the rbpf execution substrate: the x86-64 JIT      *)
(* (src/src/jit.rs), the reference interpreter it has to agree with, and   *)
(* the ELF relocator (src/src/elf.rs).                                     *)
(*                                                                         *)
(* Widths.  TLC integers are 32 bit, so machine words are modelled at a    *)
(* reduced width that keeps every ratio of the program: a byte has         *)
(* ByteBits bits, a u32 four bytes and a u64 eight bytes.  Every address   *)
(* constant is written as the same multiple of 2^32 it is in the program.  *)
(***************************************************************************)
EXTENDS Integers, Sequences, FiniteSets, TLC

----------------------------------------------------------------------------
(* Bounds of the model *)

ByteBits == 2
MaxBudget == 8
MaxInputLen == 12
MaxCallDepth == 3

----------------------------------------------------------------------------
(* Widths and program constants *)

Byte == 2 ^ ByteBits
Half == 2 ^ (4 * ByteBits)
Word == 2 ^ (8 * ByteBits)

INSN_SIZE == 8
FIRST_SCRATCH_REG == 6
SCRATCH_REGS == 4
STACK_REG == 10
ELF_INSN_DUMP_OFFSET == 29

MM_PROGRAM_START == 1 * Half
MM_STACK_START == 2 * Half
MM_INPUT_START == 4 * Half

\* u64 wrap-around of an integer
W(x) == x % Word
\* the low 32 bits of a u64
Lo32(x) == x % Half
\* two's complement reading of a u64
Signed(x) == IF x >= Word \div 2 THEN x - Word ELSE x
\* unsigned comparison of two 64-bit values given by signed representatives
ULt(a, b) == IF (a < 0) = (b < 0) THEN a < b ELSE b < 0
ULe(a, b) == a = b \/ ULt(a, b)
Max(a, b) == IF a >= b THEN a ELSE b

\* x & !(m - 1) for a power of two m
AlignDown(x, m) == x - (x % m)

----------------------------------------------------------------------------
(* Instructions: opcode, dst, src, offset, immediate (ebpf::Insn) *)

Ins(o, d, s, f, i) == [opc |-> o, dst |-> d, src |-> s, off |-> f, imm |-> i]

Alu32Ops == {"mov32_imm", "add32_imm", "sub32_imm", "neg32"}
AluOps == {"mov64_imm", "mov64_reg", "add64_imm", "add64_reg"} \cup Alu32Ops
DivOps == {"div64_reg", "div32_reg", "mod64_reg", "mod32_reg"}
LoadOps == {"ldxb", "ldxh", "ldxw", "ldxdw"}
StoreImmOps == {"stb", "sth", "stw", "stdw"}
StoreRegOps == {"stxb", "stxh", "stxw", "stxdw"}
StoreOps == StoreImmOps \cup StoreRegOps
CondOps == {"jeq_imm", "jne_imm", "jeq_reg", "jsge_reg"}

AccessLen(o) ==
  CASE o \in {"ldxb", "stb", "stxb"} -> 1
    [] o \in {"ldxh", "sth", "stxh"} -> 2
    [] o \in {"ldxw", "stw", "stxw"} -> 4
    [] OTHER -> 8

----------------------------------------------------------------------------
(* Executables handed to the VM: text, function registry, entry point.    *)
(* The call immediates are the keys the loader left in the instructions.   *)

KeyAdd == 1
KeyFail == 2
KeyUnknown == 3
\* key the loader derives from the index of a relative call
K(i) == 100 + i

\* the two slots of  lddw dst, v
Lddw(d, v) == << Ins("lddw", d, 0, 0, v % Half), Ins("lddw_hi", 0, 0, 0, v \div Half) >>
Mov(d, i) == Ins("mov64_imm", d, 0, 0, i)
MovR(d, s) == Ins("mov64_reg", d, s, 0, 0)
Add(d, i) == Ins("add64_imm", d, 0, 0, i)
AddR(d, s) == Ins("add64_reg", d, s, 0, 0)
Call(k) == Ins("call_imm", 0, 0, 0, k)
Callx(r) == Ins("callx", 0, 0, 0, r)
Exit == Ins("exit", 0, 0, 0, 0)
TextAddr(pc) == MM_PROGRAM_START + INSN_SIZE * pc

Exe(t, c, e) == [text |-> t, calls |-> c, entry |-> e]
NoCalls == [k \in {} |-> 0]

\* one load or store of every width against the input region or the stack
AccessProgram(o, base, off) ==
  IF o \in LoadOps
  THEN Exe(<< Ins(o, 0, base, off, 0), Exit >>, NoCalls, 0)
  ELSE IF o \in StoreImmOps
  THEN Exe(<< Ins(o, base, 0, off, 1), Ins("ldxb", 0, base, off, 0), Exit >>, NoCalls, 0)
  ELSE Exe(<< Mov(2, 3), Ins(o, base, 2, off, 0), Ins("ldxb", 0, base, off, 0), Exit >>,
           NoCalls, 0)

AccessPrograms ==
  { AccessProgram(o, 1, off) : o \in LoadOps \cup StoreOps, off \in {0, 6} }
  \cup { AccessProgram(o, 10, 0 - 8) : o \in {"ldxdw", "stxw", "stb"} }
  \cup { AccessProgram(o, 0, 0) : o \in {"ldxb", "stxh"} }

RoDataAddr == MM_PROGRAM_START + Half \div 2

ControlPrograms == {
  \* S1: arithmetic
  Exe(<< Mov(0, 0), Mov(1, 2), Add(0, 1), AddR(0, 1), Exit >>, NoCalls, 0),
  \* the same text entered at its third instruction
  Exe(<< Mov(0, 0), Mov(1, 2), Add(0, 1), AddR(0, 1), Exit >>, NoCalls, 2),
  \* division by a zero register after straight-line code
  Exe(<< Mov(1, 0), Mov(2, 0), Add(0, 0), Add(0, 0), Ins("div64_reg", 1, 2, 0, 0),
         Add(0, 0), Exit >>, NoCalls, 0),
  Exe(<< Mov(0, 7), Mov(2, 2), Ins("div64_reg", 0, 2, 0, 0), Exit >>, NoCalls, 0),
  \* a divisor whose low half is zero, at both operand sizes; remainders
  Exe(Lddw(2, Half) \o << Mov(0, 7), Ins("div32_reg", 0, 2, 0, 0), Exit >>, NoCalls, 0),
  Exe(Lddw(2, Half) \o << Mov(0, 7), Ins("div64_reg", 0, 2, 0, 0), Exit >>, NoCalls, 0),
  Exe(Lddw(2, Half + 2) \o << Mov(0, 7), Ins("mod32_reg", 0, 2, 0, 0), Exit >>, NoCalls, 0),
  Exe(<< Mov(0, 7), Mov(2, 0), Ins("mod64_reg", 0, 2, 0, 0), Exit >>, NoCalls, 0),
  \* tight loops
  Exe(<< Ins("jsge_reg", 0, 0, 0 - 1, 0), Exit >>, NoCalls, 0),
  Exe(<< Ins("ja", 0, 0, 0 - 1, 0), Exit >>, NoCalls, 0),
  \* a counted loop that ends
  Exe(<< Mov(0, 0), Add(0, 1), Ins("jne_imm", 0, 0, 0 - 2, 2), Exit >>, NoCalls, 0),
  Exe(<< Ins("jeq_imm", 1, 0, 1, 0), Mov(0, 1), Exit >>, NoCalls, 0),
  \* recursion through call-immediate and through callx
  Exe(<< Mov(3, 1), Call(K(1)), Exit >>, K(1) :> 0, 0),
  Exe(Lddw(8, TextAddr(3)) \o << Call(K(2)), Mov(3, 1), Callx(8), Exit >>, K(2) :> 3, 0),
  \* sibling calls, nested calls
  Exe(<< Call(K(0)), Call(K(1)), Exit, Exit >>, K(0) :> 3 @@ K(1) :> 3, 0),
  Exe(<< Call(K(0)), Exit, Call(K(2)), Exit, Exit >>, K(0) :> 2 @@ K(2) :> 4, 0),
  Exe(<< Call(K(0)), Mov(0, 2), Exit, Mov(0, 1), Exit >>, K(0) :> 3, 0),
  \* callee-saved registers across call-immediate and callx
  Exe(<< Mov(6, 1), Mov(9, 4), Call(K(2)), AddR(0, 6), Exit, Mov(6, 9), Mov(9, 7), Exit >>,
      K(2) :> 5, 0),
  Exe(Lddw(7, TextAddr(6)) \o << Mov(6, 1), Callx(7), AddR(0, 6), Exit,
                                 Mov(6, 9), Mov(7, 0), Exit >>, NoCalls, 0),
  \* callx: valid target, target below and above the text, target at full depth
  Exe(<< Mov(0, 0) >> \o Lddw(8, TextAddr(5)) \o << Callx(8), Exit, Mov(0, 2), Exit >>,
      NoCalls, 0),
  Exe(<< Mov(0, 3), Callx(0), Exit >>, NoCalls, 0),
  Exe(Lddw(0, TextAddr(4)) \o << Callx(0), Exit >>, NoCalls, 0),
  Exe(<< Call(K(0)), Exit, Mov(0, 3), Callx(0), Exit >>, K(0) :> 2, 0),
  \* callx to an address inside the text that is no multiple of the instruction size
  Exe(<< Mov(0, 0) >> \o Lddw(8, TextAddr(5) + 4) \o << Callx(8), Exit, Mov(0, 2), Exit >>,
      NoCalls, 0),
  \* callx into the second slot of a lddw, next to the callx and away from it
  Exe(Lddw(8, TextAddr(4)) \o << Callx(8) >> \o Lddw(0, 1) \o << Exit >>, NoCalls, 0),
  Exe(Lddw(1, TextAddr(7)) \o << Callx(1), MovR(0, 0), MovR(0, 0), Exit >>
        \o Lddw(0, 1) \o << Exit >>, NoCalls, 0),
  \* host upcalls: succeeding, failing, in a loop, unresolved
  Exe(<< Mov(1, 2), Mov(2, 3), Call(KeyAdd), Exit >>, NoCalls, 0),
  Exe(<< Mov(2, 5), Call(KeyFail), Mov(0, 0), Exit >>, NoCalls, 0),
  Exe(<< Mov(2, 1), Call(KeyAdd), Ins("ja", 0, 0, 0 - 2, 0), Exit >>, NoCalls, 0),
  Exe(<< Mov(1, 1), Call(KeyUnknown), Mov(0, 0), Exit >>, NoCalls, 0),
  \* a key held by the upcall registry and by the function registry
  Exe(<< Mov(1, 2), Mov(2, 3), Call(KeyAdd), Exit, Mov(0, 7), Exit >>, KeyAdd :> 4, 0),
  \* lddw and exit at the end of the budget
  Exe(<< Mov(0, 0) >> \o Lddw(1, 1) \o << Mov(2, 0), Exit >>, NoCalls, 0),
  Exe(<< Call(K(0)), MovR(0, 0), Exit >>, K(0) :> 1, 0),
  \* a store into the read-only region
  Exe(Lddw(3, RoDataAddr) \o << Ins("stb", 3, 0, 0, 1), Exit >>, NoCalls, 0),
  \* 32-bit arithmetic whose result has its top bit set
  Exe(<< Ins("mov32_imm", 0, 0, 0, 0 - 1), Exit >>, NoCalls, 0),
  Exe(<< Ins("mov32_imm", 0, 0, 0, Half \div 2 - 1), Ins("add32_imm", 0, 0, 0, 1), Exit >>,
      NoCalls, 0),
  Exe(<< Mov(0, 1), Ins("neg32", 0, 0, 0, 0), Ins("sub32_imm", 0, 0, 0, 1), Exit >>,
      NoCalls, 0)
}

Programs == ControlPrograms \cup AccessPrograms

\* host upcalls registered by the caller: symbol hash -> callable
SyscallRegistry == KeyAdd :> "add" @@ KeyFail :> "fail"

InRegistry(reg, k) == k \in DOMAIN reg

----------------------------------------------------------------------------
(* State *)

VARIABLES
  exe,        \* the verified executable being run
  cfg,        \* vm::Config
  budget,     \* initial value of the instruction meter
  inputLen,   \* length of the caller's input region
  jit,        \* machine state of the JIT-compiled program
  interp,     \* machine state of the interpreter
  obs,        \* history of the JIT run (not program state)
  elf         \* the loader at work on an ELF image

vmvars == << exe, cfg, budget, inputLen, jit, interp, obs >>
vars == << vmvars, elf >>

NumInsns == Len(exe.text)
InsnAt(pc) == exe.text[pc + 1]
StackFrameSize == cfg.stack_frame_size
StackLen == cfg.max_call_depth * StackFrameSize * 2

----------------------------------------------------------------------------
(* Memory map (spec 4.C): region table and translation *)

RoHostBase == 16
StackHostBase == 32
InputHostBase == 128

Regions == <<
  [name |-> "rodata", host_base |-> RoHostBase, vm_base |-> RoDataAddr, len |-> 8,
   writable |-> FALSE],
  [name |-> "stack", host_base |-> StackHostBase, vm_base |-> MM_STACK_START,
   len |-> StackLen, writable |-> TRUE],
  [name |-> "input", host_base |-> InputHostBase, vm_base |-> MM_INPUT_START,
   len |-> inputLen, writable |-> TRUE] >>

HostAddrs == UNION { r.host_base .. (r.host_base + r.len - 1) :
                     r \in { Regions[i] : i \in 1..Len(Regions) } }

InitialMemory == [a \in HostAddrs |->
                    IF a >= InputHostBase THEN (a - InputHostBase + 1) % Byte ELSE 0]

\* a hit decided by the first byte of the access alone
RegionHit_FirstByte(r, access, vm_addr, len) ==
  /\ r.vm_base <= vm_addr
  /\ vm_addr < r.vm_base + r.len
  /\ (access = "Store" => r.writable)

RegionHit(r, access, vm_addr, len) ==
  /\ r.vm_base <= vm_addr
  /\ vm_addr + len <= r.vm_base + r.len
  /\ (access = "Store" => r.writable)

\* MemoryMapping::map: host address, or an access violation
MemoryMapping_map(access, vm_addr, len) ==
  LET hits == { i \in 1..Len(Regions) : RegionHit(Regions[i], access, vm_addr, len) }
  IN IF hits = {}
     THEN [ok |-> FALSE, host |-> 0]
     ELSE LET r == Regions[CHOOSE i \in hits : TRUE]
          IN [ok |-> TRUE, host |-> r.host_base + (vm_addr - r.vm_base)]

HostRead(mem, a) == IF a \in DOMAIN mem THEN mem[a] ELSE 0

RECURSIVE LoadLE(_, _, _)
\* little-endian read of n bytes at host address a
LoadLE(mem, a, n) == IF n = 0 THEN 0 ELSE HostRead(mem, a) + Byte * LoadLE(mem, a + 1, n - 1)

\* little-endian write of the low n bytes of v at host address a
StoreLE(mem, a, n, v) ==
  [x \in DOMAIN mem |-> IF a <= x /\ x < a + n THEN (v \div (Byte ^ (x - a))) % Byte ELSE mem[x]]

----------------------------------------------------------------------------
(* Results: ProgramResult as laid out in the result cell *)

NoResult == [is_err |-> FALSE, kind |-> "none", value |-> 0, pc |-> 0, aux |-> 0]
OkResult(v) == [is_err |-> FALSE, kind |-> "Ok", value |-> v, pc |-> 0, aux |-> 0]
ErrResult(k, pc, aux) == [is_err |-> TRUE, kind |-> k, value |-> 0, pc |-> pc, aux |-> aux]

\* host upcalls (opaque to the core): result of calling one with r1..r5
SyscallResult(name, reg) ==
  IF name = "add" THEN OkResult(W(reg[1] + reg[2])) ELSE ErrResult("SyscallError", 0, 0)

\* Executable::report_unresolved_symbol
ReportUnresolvedSymbol(pc) == ErrResult("UnresolvedSymbol", pc + ELF_INSN_DUMP_OFFSET, 0)

\* InstructionMeter::consume
MeterConsume(remaining, amount) == remaining - amount

\* snapshots kept of a run (the log itself is unbounded)
TraceCap == MaxBudget + 2

\* Tracer::trace, called with the pc in R11 and the eleven registers
Trace(log, pc, reg) ==
  IF cfg.enable_instruction_tracing /\ Len(log) < TraceCap
  THEN Append(log, [pc |-> pc, reg |-> reg])
  ELSE log

----------------------------------------------------------------------------
(* JIT (src/src/jit.rs): layout of the emitted code *)

\* the handlers are emitted in front of the instruction blocks
CallxUnsupportedAnchor == 8
CodeBase == 64
BlockLen == 16

\* native address of the block compiled for the instruction at pc
BlockAddr(pc) == CodeBase + BlockLen * pc

\* pc_section after resolve_jumps; entry NumInsns is the bumper
PcSection(i) ==
  IF i < NumInsns /\ InsnAt(i).opc = "lddw_hi" THEN CallxUnsupportedAnchor ELSE BlockAddr(i)

\* a return address that lies in front of the block of pc
ReturnAddr_Before(pc) == BlockAddr(pc) - 1

\* return address pushed by the native call inside the block of pc
ReturnAddr(pc) == BlockAddr(pc) + BlockLen - 1

\* the block a native return address continues in
ResumePc(ra) == (ra - CodeBase) \div BlockLen

RECURSIVE TranslatePc(_, _)
\* TARGET_PC_TRANSLATE_PC: linear search, continue while pc_section[i + 1] <= R11
TranslatePc(i, r11) ==
  IF i + 1 <= NumInsns /\ PcSection(i + 1) <= r11 THEN TranslatePc(i + 1, r11) ELSE i

----------------------------------------------------------------------------
(* JIT: instruction meter *)

\* emit_validate_and_profile_instruction_count: TRUE when the jump to the handler is taken
MeterExceeded(exclusive, meter, pc) ==
  /\ cfg.enable_instruction_meter
  /\ IF exclusive THEN ULt(meter, pc + 1) ELSE ULe(meter, pc + 1)

\* a meter the branches leave alone
Profile_Skipped(meter, pc, target_pc) == meter

\* emit_profile_instruction_count
Profile(meter, pc, target_pc) ==
  IF cfg.enable_instruction_meter THEN meter + target_pc - pc - 1 ELSE meter

\* emit_undo_profile_instruction_count
UndoProfile(meter, pc, target_pc) ==
  IF cfg.enable_instruction_meter THEN meter + pc + 1 - target_pc ELSE meter

\* emit_profile_instruction_count_of_exception, on the meter register
ProfileOfException(meter, r11) ==
  IF cfg.enable_instruction_meter THEN meter - (r11 + 1) ELSE meter

----------------------------------------------------------------------------
(* JIT: exception handlers *)

\* TARGET_PC_EXCEPTION_AT, entered with the pc in R11
ExceptionAt(j, kind, aux, r11) ==
  [j EXCEPT !.meter = ProfileOfException(j.meter, r11),
            !.result = ErrResult(kind, (r11 + 1) + ELF_INSN_DUMP_OFFSET - 1, aux),
            !.state = "done"]

\* a handler that ends the run as an exit would
ExceededMaxInstructions_Exit(j) ==
  [j EXCEPT !.result = OkResult(j.reg[0]), !.state = "done"]

\* TARGET_PC_CALL_EXCEEDED_MAX_INSTRUCTIONS: R11 := the meter register
ExceededMaxInstructions(j) == ExceptionAt(j, "ExceededMaxInstructions", 0, j.meter)

\* a handler that writes the pc in R11 into the error the callee returned
SyscallException_Tagged(j, res, r11) ==
  [j EXCEPT !.meter = ProfileOfException(j.meter, r11),
            !.result = [res EXCEPT !.pc = r11 + ELF_INSN_DUMP_OFFSET], !.state = "done"]

\* TARGET_PC_SYSCALL_EXCEPTION: the result cell is left as the callee wrote it
SyscallException(j, res, r11) ==
  [j EXCEPT !.meter = ProfileOfException(j.meter, r11), !.result = res, !.state = "done"]

\* TARGET_PC_CALLX_UNSUPPORTED_INSTRUCTION, entered by the native call of a callx
CallxUnsupportedInstruction(j) ==
  LET r11 == TranslatePc(0, j.stack[Len(j.stack)]) + 2
  IN ExceptionAt(j, "UnsupportedInstruction", 0, r11)

\* TARGET_PC_EXIT
ExitHandler(j) == [j EXCEPT !.result = OkResult(j.reg[0]), !.state = "done"]

----------------------------------------------------------------------------
(* JIT: the block emitted for each instruction, as a function of the       *)
(* machine state j entering it                                             *)

\* X86Instruction::sign_extend_i32_to_i64 (movsxd): bit 31 fills the upper half
sign_extend_i32_to_i64(x) ==
  IF Lo32(x) >= Half \div 2 THEN Lo32(x) + (Word - Half) ELSE Lo32(x)

\* an x86 instruction with a 32-bit destination clears the upper half
AluResult(insn, reg) ==
  CASE insn.opc = "mov64_imm" -> W(insn.imm)
    [] insn.opc = "mov64_reg" -> reg[insn.src]
    [] insn.opc = "add64_imm" -> W(reg[insn.dst] + insn.imm)
    [] insn.opc = "add64_reg" -> W(reg[insn.dst] + reg[insn.src])
    [] insn.opc = "mov32_imm" -> Lo32(insn.imm)
    [] insn.opc = "add32_imm" -> sign_extend_i32_to_i64(Lo32(reg[insn.dst]) + insn.imm)
    [] insn.opc = "sub32_imm" -> sign_extend_i32_to_i64(Lo32(reg[insn.dst]) - insn.imm)
    [] insn.opc = "neg32" -> Lo32(0 - Lo32(reg[insn.dst]))

JitAluStep(j) ==
  LET insn == InsnAt(j.pc)
  IN [j EXCEPT !.reg[insn.dst] = AluResult(insn, j.reg), !.pc = j.pc + 1]

\* a divisor taken at 64 bits whatever the operand size
Divisor_Whole(insn, reg) == reg[insn.src]

\* the source register at the operand size of the instruction (test src,src; div r11)
Divisor(insn, reg) ==
  IF insn.opc \in {"div32_reg", "mod32_reg"} THEN Lo32(reg[insn.src]) ELSE reg[insn.src]

\* RAX (quotient) or RDX (remainder) after the unsigned x86 div, zero-extended
DivResult(insn, reg) ==
  LET n == IF insn.opc \in {"div32_reg", "mod32_reg"} THEN Lo32(reg[insn.dst])
           ELSE reg[insn.dst]
  IN IF insn.opc \in {"div64_reg", "div32_reg"}
     THEN n \div Divisor(insn, reg)
     ELSE n % Divisor(insn, reg)

\* emit_muldivmod for the register forms of div and mod
JitDivStep(j) ==
  LET insn == InsnAt(j.pc)
  IN IF Divisor(insn, j.reg) = 0
     THEN ExceptionAt(j, "DivideByZero", 0, j.pc)
     ELSE [j EXCEPT !.reg[insn.dst] = DivResult(insn, j.reg), !.pc = j.pc + 1]

JitLddwStep(j) ==
  LET insn == InsnAt(j.pc)
  IN IF MeterExceeded(TRUE, j.meter, j.pc)
     THEN ExceededMaxInstructions(j)
     ELSE [j EXCEPT !.meter = Profile(j.meter, j.pc, j.pc + 2),
                    !.reg[insn.dst] = insn.imm + Half * InsnAt(j.pc + 1).imm,
                    !.pc = j.pc + 2]

\* a translation request for the first byte only
TranslationArgs_FirstByte(insn, reg) ==
  IF insn.opc \in LoadOps
  THEN [access |-> "Load", vm_addr |-> W(reg[insn.src] + insn.off), len |-> 1]
  ELSE [access |-> "Store", vm_addr |-> W(reg[insn.dst] + insn.off), len |-> 1]

\* what the block of a load or store hands to emit_address_translation
TranslationArgs(insn, reg) ==
  IF insn.opc \in LoadOps
  THEN [access |-> "Load", vm_addr |-> W(reg[insn.src] + insn.off), len |-> AccessLen(insn.opc)]
  ELSE [access |-> "Store", vm_addr |-> W(reg[insn.dst] + insn.off), len |-> AccessLen(insn.opc)]

\* emit_address_translation: call of MemoryMapping::map
emit_address_translation(a) == MemoryMapping_map(a.access, a.vm_addr, a.len)

\* host bytes the x86 load or store after the translation touches
HostBytes(insn, host) == host .. (host + AccessLen(insn.opc) - 1)

JitLoadStep(j) ==
  LET insn == InsnAt(j.pc)
      a == TranslationArgs(insn, j.reg)
      m == emit_address_translation(a)
  IN IF ~m.ok
     THEN ExceptionAt(j, "AccessViolation", a.vm_addr, j.pc)
     ELSE [j EXCEPT !.reg[insn.dst] = LoadLE(j.mem, m.host, Cardinality(HostBytes(insn, m.host))),
                    !.pc = j.pc + 1]

JitStoreStep(j) ==
  LET insn == InsnAt(j.pc)
      a == TranslationArgs(insn, j.reg)
      m == emit_address_translation(a)
      v == IF insn.opc \in StoreImmOps THEN W(insn.imm) ELSE j.reg[insn.src]
  IN IF ~m.ok
     THEN ExceptionAt(j, "AccessViolation", a.vm_addr, j.pc)
     ELSE [j EXCEPT !.mem = StoreLE(j.mem, m.host, Cardinality(HostBytes(insn, m.host)), v),
                    !.pc = j.pc + 1]

TargetPc(pc, insn) == pc + insn.off + 1

JitJaStep(j) ==
  LET target_pc == TargetPc(j.pc, InsnAt(j.pc))
  IN IF MeterExceeded(FALSE, j.meter, j.pc)
     THEN ExceededMaxInstructions(j)
     ELSE [j EXCEPT !.meter = Profile(j.meter, j.pc, target_pc), !.pc = target_pc]

BranchTaken(insn, reg) ==
  CASE insn.opc = "jeq_imm" -> reg[insn.dst] = W(insn.imm)
    [] insn.opc = "jne_imm" -> reg[insn.dst] # W(insn.imm)
    [] insn.opc = "jeq_reg" -> reg[insn.dst] = reg[insn.src]
    [] insn.opc = "jsge_reg" -> Signed(reg[insn.dst]) >= Signed(reg[insn.src])

\* emit_conditional_branch_reg / emit_conditional_branch_imm
JitJccStep(j) ==
  LET insn == InsnAt(j.pc)
      target_pc == TargetPc(j.pc, insn)
      m1 == Profile(j.meter, j.pc, target_pc)
  IN IF MeterExceeded(FALSE, j.meter, j.pc)
     THEN ExceededMaxInstructions(j)
     ELSE IF BranchTaken(insn, j.reg)
     THEN [j EXCEPT !.meter = m1, !.pc = target_pc]
     ELSE [j EXCEPT !.meter = UndoProfile(m1, j.pc, target_pc), !.pc = j.pc + 1]

\* call-immediate whose key is in the syscall registry
JitSyscallStep(j) ==
  LET insn == InsnAt(j.pc)
      metered == cfg.enable_instruction_meter
      m1 == Profile(j.meter, j.pc, 0)
      amount == j.prev_meter - m1
      jc == IF metered
            THEN [j EXCEPT !.meter = amount, !.mobj = MeterConsume(j.mobj, amount)]
            ELSE j
      res == SyscallResult(SyscallRegistry[insn.imm], j.reg)
  IN IF MeterExceeded(TRUE, j.meter, j.pc)
     THEN ExceededMaxInstructions(j)
     ELSE IF res.is_err
     THEN SyscallException(jc, res, j.pc)
     ELSE IF metered
     THEN [jc EXCEPT !.reg[0] = res.value, !.prev_meter = jc.mobj,
                     !.meter = UndoProfile(jc.mobj, j.pc, 0), !.pc = j.pc + 1]
     ELSE [jc EXCEPT !.reg[0] = res.value, !.pc = j.pc + 1]

\* call-immediate whose key is in neither registry
JitCallUnresolvedStep(j) == SyscallException(j, ReportUnresolvedSymbol(j.pc), j.pc)

\* the pushes that open emit_bpf_call: r6..r9, then r10
SavedRegs(reg) == << reg[6], reg[7], reg[8], reg[9], reg[10] >>

\* stack_ptr &= !(stack_frame_size * 2 - 1); stack_ptr += stack_frame_size * 3
CallStackPtr(sp) == AlignDown(sp, 2 * StackFrameSize) + 3 * StackFrameSize

\* a depth check that lets one frame too many through
DepthExceeded_Late(sp) ==
  ~ULt(sp, MM_STACK_START + (cfg.max_call_depth + 1) * StackFrameSize * 2)

\* stack_ptr >= MM_STACK_START + max_call_depth * stack_frame_size * 2
DepthExceeded(sp) == ~ULt(sp, MM_STACK_START + cfg.max_call_depth * StackFrameSize * 2)

\* a text range that takes in the address right after the last instruction
OutsideText_PastEnd(rax) ==
  \/ ~ULe(rax, MM_PROGRAM_START + NumInsns * INSN_SIZE)
  \/ ULt(rax, MM_PROGRAM_START)

\* RAX outside [program_vm_addr, program_vm_addr + number_of_instructions * INSN_SIZE)
OutsideText(rax) ==
  \/ ~ULt(rax, MM_PROGRAM_START + NumInsns * INSN_SIZE)
  \/ ULt(rax, MM_PROGRAM_START)

\* emit_bpf_call up to and including the native call
emit_bpf_call(j, viaReg) ==
  LET pc == j.pc
      insn == InsnAt(pc)
      st1 == j.stack \o SavedRegs(j.reg)
      st2 == IF viaReg THEN Append(st1, j.reg[0]) ELSE st1
      rax == AlignDown(j.reg[insn.imm], INSN_SIZE)
      target_pc == IF viaReg THEN (rax - MM_PROGRAM_START) \div INSN_SIZE ELSE exe.calls[insn.imm]
      sp == CallStackPtr(j.stack_ptr)
      jc == [j EXCEPT !.stack = st2, !.stack_ptr = sp, !.reg[STACK_REG] = sp]
      called == [jc EXCEPT !.meter = Profile(j.meter, pc, target_pc),
                           !.stack = Append(st1, ReturnAddr(pc)),
                           !.pc = target_pc]
  IN IF viaReg /\ OutsideText(rax)
     THEN ExceptionAt([j EXCEPT !.stack = st2], "CallOutsideTextSegment", rax, pc)
     ELSE IF DepthExceeded(sp)
     THEN ExceptionAt(jc, "CallDepthExceeded", cfg.max_call_depth, pc)
     ELSE IF MeterExceeded(FALSE, j.meter, pc)
     THEN ExceededMaxInstructions(jc)
     ELSE IF PcSection(target_pc) = CallxUnsupportedAnchor
     THEN CallxUnsupportedInstruction(called)
     ELSE called

\* pops in the order of the pushes
RestoredReg_Forward(stack, n, r) == IF r = STACK_REG THEN stack[n - 1] ELSE stack[n + 4 - r]

\* the pops that close emit_bpf_call: r10, then r9..r6; n is the slot of the return address
RestoredReg(stack, n, r) == IF r = STACK_REG THEN stack[n - 1] ELSE stack[n - 11 + r]

\* native ret of an exit, then the rest of the caller's emit_bpf_call
JitReturn(j) ==
  LET n == Len(j.stack)
      call_pc == ResumePc(j.stack[n])
  IN [j EXCEPT !.meter = UndoProfile(j.meter, call_pc, 0),
               !.reg = [r \in 0..10 |-> IF r >= FIRST_SCRATCH_REG
                                        THEN RestoredReg(j.stack, n, r) ELSE j.reg[r]],
               !.stack = SubSeq(j.stack, 1, n - 6),
               !.pc = call_pc + 1]

JitExitStep(j) ==
  LET sp == AlignDown(j.stack_ptr, 2 * StackFrameSize) - 2 * StackFrameSize
      je == [j EXCEPT !.meter = Profile(j.meter, j.pc, 0), !.stack_ptr = sp,
                      !.reg[STACK_REG] = sp]
  IN IF MeterExceeded(TRUE, j.meter, j.pc)
     THEN ExceededMaxInstructions(j)
     ELSE IF ULt(sp, MM_STACK_START) THEN ExitHandler(je) ELSE JitReturn(je)

----------------------------------------------------------------------------
(* Interpreter (spec 4.F, 4.G): one instruction per step *)

InterpFault(i, kind, pc, aux) ==
  [i EXCEPT !.result = ErrResult(kind, pc + ELF_INSN_DUMP_OFFSET, aux), !.state = "done"]

\* call-immediate's function branch: push a frame, or fail on frame overflow
InterpCall(i, target_pc) ==
  IF Len(i.frames) + 1 >= cfg.max_call_depth
  THEN InterpFault(i, "CallDepthExceeded", i.pc, cfg.max_call_depth)
  ELSE [i EXCEPT !.frames = Append(i.frames, [saved |-> SavedRegs(i.reg), ret |-> i.pc + 1]),
                 !.reg[STACK_REG] = i.reg[STACK_REG] + StackFrameSize,
                 !.pc = target_pc]

InterpCallx(i) ==
  LET addr == i.reg[InsnAt(i.pc).imm]
      aligned == AlignDown(addr, INSN_SIZE)
  IN IF OutsideText(aligned)
     THEN InterpFault(i, "CallOutsideTextSegment", i.pc, aligned)
     ELSE IF addr # aligned
     THEN InterpFault(i, "UnalignedCallTarget", i.pc, addr)
     ELSE InterpCall(i, (addr - MM_PROGRAM_START) \div INSN_SIZE)

InterpExit(i) ==
  LET n == Len(i.frames)
      f == i.frames[n]
  IN IF n = 0
     THEN [i EXCEPT !.result = OkResult(i.reg[0]), !.state = "done"]
     ELSE [i EXCEPT !.reg = [r \in 0..10 |-> IF r >= FIRST_SCRATCH_REG
                                            THEN f.saved[r - FIRST_SCRATCH_REG + 1]
                                            ELSE i.reg[r]],
                    !.frames = SubSeq(i.frames, 1, n - 1),
                    !.pc = f.ret]

InterpMemory(i) ==
  LET insn == InsnAt(i.pc)
      load == insn.opc \in LoadOps
      vm_addr == W(i.reg[IF load THEN insn.src ELSE insn.dst] + insn.off)
      len == AccessLen(insn.opc)
      m == MemoryMapping_map(IF load THEN "Load" ELSE "Store", vm_addr, len)
      v == IF insn.opc \in StoreImmOps THEN W(insn.imm) ELSE i.reg[insn.src]
  IN IF ~m.ok
     THEN InterpFault(i, "AccessViolation", i.pc, vm_addr)
     ELSE IF load
     THEN [i EXCEPT !.reg[insn.dst] = LoadLE(i.mem, m.host, len), !.pc = i.pc + 1]
     ELSE [i EXCEPT !.mem = StoreLE(i.mem, m.host, len, v), !.pc = i.pc + 1]

InterpCallImm(i) ==
  LET k == InsnAt(i.pc).imm
      res == SyscallResult(SyscallRegistry[k], i.reg)
  IN IF InRegistry(SyscallRegistry, k)
     THEN IF res.is_err
          THEN [i EXCEPT !.result = res, !.state = "done"]
          ELSE [i EXCEPT !.reg[0] = res.value, !.pc = i.pc + 1]
     ELSE IF InRegistry(exe.calls, k)
     THEN InterpCall(i, exe.calls[k])
     ELSE [i EXCEPT !.result = ReportUnresolvedSymbol(i.pc), !.state = "done"]

\* dispatch on the opcode of the instruction at i.pc
InterpExecute(i) ==
  LET insn == InsnAt(i.pc)
      opc == insn.opc
  IN CASE opc \in AluOps ->
            [i EXCEPT !.reg[insn.dst] = IF opc \in Alu32Ops THEN Lo32(AluResult(insn, i.reg))
                                        ELSE AluResult(insn, i.reg),
                      !.pc = i.pc + 1]
       [] opc \in DivOps ->
            IF Divisor(insn, i.reg) = 0
            THEN InterpFault(i, "DivideByZero", i.pc, 0)
            ELSE [i EXCEPT !.reg[insn.dst] = DivResult(insn, i.reg), !.pc = i.pc + 1]
       [] opc = "lddw" ->
            [i EXCEPT !.reg[insn.dst] = insn.imm + Half * InsnAt(i.pc + 1).imm, !.pc = i.pc + 2]
       [] opc = "lddw_hi" -> InterpFault(i, "UnsupportedInstruction", i.pc, 0)
       [] opc \in LoadOps \cup StoreOps -> InterpMemory(i)
       [] opc = "ja" -> [i EXCEPT !.pc = TargetPc(i.pc, insn)]
       [] opc \in CondOps ->
            [i EXCEPT !.pc = IF BranchTaken(insn, i.reg) THEN TargetPc(i.pc, insn) ELSE i.pc + 1]
       [] opc = "call_imm" -> InterpCallImm(i)
       [] opc = "callx" -> InterpCallx(i)
       [] opc = "exit" -> InterpExit(i)

\* slots the instruction at pc occupies
InsnWidth(pc) == IF InsnAt(pc).opc = "lddw" THEN 2 ELSE 1

\* the meter is charged one unit before each instruction; execution stops when it cannot pay
InterpNext(i) ==
  IF cfg.enable_instruction_meter
  THEN IF i.remaining < 1
       THEN [i EXCEPT !.result = ErrResult("ExceededMaxInstructions",
                                           i.last + ELF_INSN_DUMP_OFFSET, 0),
                      !.state = "done"]
       ELSE InterpExecute([i EXCEPT !.remaining = i.remaining - 1, !.count = i.count + 1,
                                    !.last = i.pc + InsnWidth(i.pc),
                                    !.trace = Trace(i.trace, i.pc, i.reg)])
  ELSE InterpExecute([i EXCEPT !.trace = Trace(i.trace, i.pc, i.reg)])

----------------------------------------------------------------------------
(* Initial state: a verified executable, a configuration, a budget, an     *)
(* input region; both engines at the entry point                           *)

Configs ==
  [max_call_depth : 1..MaxCallDepth, stack_frame_size : {INSN_SIZE},
   enable_instruction_meter : BOOLEAN, enable_instruction_tracing : {FALSE}]
  \cup [max_call_depth : {MaxCallDepth}, stack_frame_size : {INSN_SIZE},
        enable_instruction_meter : BOOLEAN, enable_instruction_tracing : {TRUE}]

InitialRegs == [r \in 0..10 |->
                  IF r = 1 THEN MM_INPUT_START
                  ELSE IF r = STACK_REG THEN MM_STACK_START + StackFrameSize
                  ELSE 0]

\* generate_prologue, then the jump to the entry point
JitInit ==
  [pc |-> exe.entry, reg |-> InitialRegs, meter |-> Profile(budget, 0, exe.entry + 1),
   stack |-> << >>, stack_ptr |-> MM_STACK_START + StackFrameSize, prev_meter |-> budget,
   mobj |-> budget, mem |-> InitialMemory, result |-> NoResult, state |-> "run"]

InterpInit ==
  [pc |-> exe.entry, reg |-> InitialRegs, frames |-> << >>, remaining |-> budget,
   count |-> 0, last |-> exe.entry, mem |-> InitialMemory, result |-> NoResult,
   trace |-> << >>, state |-> "run"]

NoAccess == [pc |-> 0 - 1, args |-> [access |-> "none", vm_addr |-> 0, len |-> 0],
             ok |-> FALSE, touched |-> {}]

\* no image is being loaded while a program runs
NoElf == [phase |-> "idle"]

ObsInit == [effects |-> 0, access |-> NoAccess, frames |-> << >>, returns |-> 0,
            clobbered |-> FALSE, trace |-> << >>, since |-> 0]

Init ==
  /\ exe \in Programs
  /\ cfg \in Configs
  /\ budget \in (IF cfg.enable_instruction_meter THEN 0..MaxBudget ELSE {MaxBudget})
  /\ inputLen \in {0, MaxInputLen}
  /\ jit = JitInit
  /\ interp = InterpInit
  /\ obs = ObsInit
  /\ elf = NoElf

----------------------------------------------------------------------------
(* History of the JIT run *)

EffectCap == MaxBudget + 1
ReturnCap == 2

\* one more instruction wrote a register, stored to memory or made an upcall
Effect(o) == [o EXCEPT !.effects = IF o.effects < EffectCap THEN o.effects + 1 ELSE o.effects]

\* the translation request of a load or store and the host bytes then touched
Accessed(o, j) ==
  LET insn == InsnAt(j.pc)
      a == TranslationArgs(insn, j.reg)
      m == emit_address_translation(a)
  IN [o EXCEPT !.access = [pc |-> j.pc, args |-> a, ok |-> m.ok,
                           touched |-> IF m.ok THEN HostBytes(insn, m.host) ELSE {}]]

\* the caller's registers at a call that went through
Called(o, j, j2) ==
  IF j2.state = "run"
  THEN [o EXCEPT !.frames = Append(o.frames, [pc |-> j.pc, reg |-> j.reg])]
  ELSE o

Returned(o, j, j2) ==
  IF j2.state = "run"
  THEN [o EXCEPT !.frames = SubSeq(o.frames, 1, Len(o.frames) - 1),
                 !.returns = IF o.returns < ReturnCap THEN o.returns + 1 ELSE o.returns,
                 !.clobbered = o.clobbered
                               \/ \E r \in 6..9 : j.reg[r] # o.frames[Len(o.frames)].reg[r]]
  ELSE o

----------------------------------------------------------------------------
(* Actions *)

\* values a Rust function may leave in the registers it need not preserve
Junk == {0, 1}

\* a call sequence that does not bring the meter register back
emit_rust_call_MeterLost(m, junk) == [m EXCEPT !.meter = junk]

\* emit_rust_call(function, arguments, None, false) seen from the guest registers,
\* the meter (RDI) and R11: CALLER_SAVED_REGISTERS are pushed, the arguments are
\* moved, the callee overwrites what it may, the pops bring the saved values back;
\* r6..r9 and r10 live in callee-saved host registers

emit_rust_call(m, junk) ==
  LET saved == m
      called == [m EXCEPT !.reg = [r \in 0..10 |-> IF r <= 5 THEN junk ELSE m.reg[r]],
                          !.meter = junk, !.r11 = junk]
  IN [called EXCEPT !.reg = [r \in 0..10 |-> IF r <= 5 THEN saved.reg[r] ELSE called.reg[r]],
                    !.meter = saved.meter, !.r11 = saved.r11]

\* the routine at TARGET_PC_TRACE, entered with the pc in R11: R11 and the eleven
\* registers are pushed (r0 on top), RAX points at them for Tracer::trace, and
\* after the call RAX and R11 are popped and the other slots skipped
TARGET_PC_TRACE(j, junk) ==
  LET pushed == << j.pc >> \o [k \in 1..11 |-> j.reg[11 - k]]
      m1 == [reg |-> [j.reg EXCEPT ![0] = Len(pushed)], meter |-> j.meter, r11 |-> j.pc]
      m2 == emit_rust_call(m1, junk)
      m3 == [m2 EXCEPT !.reg[0] = pushed[Len(pushed)], !.r11 = pushed[1]]
  IN [j EXCEPT !.reg = m3.reg, !.meter = m3.meter]

\* the head of the block of an instruction
Entered(j, junk) ==
  IF cfg.enable_instruction_tracing THEN TARGET_PC_TRACE(j, junk) ELSE j

\* the call of TARGET_PC_TRACE that opens the block of the instruction at jit.pc
Traced(o) ==
  [o EXCEPT !.trace = Trace(o.trace, jit.pc, jit.reg),
            !.since = IF cfg.enable_instruction_meter /\ @ < EffectCap THEN @ + 1 ELSE @]

\* the meter object and the compiled run agree again: I::consume has been called
Synced(o) == [o EXCEPT !.since = 0]

\* the same, and the call of TARGET_PC_TRACE in the handler of an unsupported call
\* target, which j2 has run through when it holds that error
TracedCall(o, j2) ==
  IF j2.result.kind = "UnsupportedInstruction"
  THEN [o EXCEPT !.trace = Trace(Traced(o).trace, j2.result.pc - ELF_INSN_DUMP_OFFSET, j2.reg)]
  ELSE Traced(o)

JitAt(ops) == jit.state = "run" /\ InsnAt(jit.pc).opc \in ops

\* a lookup that asks the function registry first
CallKind_FunctionFirst(k) ==
  IF InRegistry(exe.calls, k) THEN "function"
  ELSE IF InRegistry(SyscallRegistry, k) THEN "syscall"
  ELSE "unresolved"

\* the lookups made when a call-immediate is compiled: syscall registry, then functions
CallKind(k) ==
  IF InRegistry(SyscallRegistry, k) THEN "syscall"
  ELSE IF InRegistry(exe.calls, k) THEN "function"
  ELSE "unresolved"

JitCallAt(kind) == JitAt({"call_imm"}) /\ CallKind(InsnAt(jit.pc).imm) = kind

Rest == << exe, cfg, budget, inputLen, interp, elf >>

JitAlu ==
  /\ JitAt(AluOps)
  /\ \E e \in {Entered(jit, junk) : junk \in Junk} : jit' = JitAluStep(e)
  /\ obs' = Traced(Effect(obs))
  /\ UNCHANGED Rest

JitDiv ==
  /\ JitAt(DivOps)
  /\ \E e \in {Entered(jit, junk) : junk \in Junk} : jit' = JitDivStep(e)
  /\ obs' = Traced(IF jit'.state = "run" THEN Effect(obs) ELSE obs)
  /\ UNCHANGED Rest

JitLddw ==
  /\ JitAt({"lddw"})
  /\ \E e \in {Entered(jit, junk) : junk \in Junk} : jit' = JitLddwStep(e)
  /\ obs' = Traced(IF jit'.state = "run" THEN Effect(obs) ELSE obs)
  /\ UNCHANGED Rest

JitLoad ==
  /\ JitAt(LoadOps)
  /\ \E e \in {Entered(jit, junk) : junk \in Junk} : jit' = JitLoadStep(e)
  /\ obs' = Traced(IF jit'.state = "run" THEN Effect(Accessed(obs, jit))
                  ELSE Accessed(obs, jit))
  /\ UNCHANGED Rest

JitStore ==
  /\ JitAt(StoreOps)
  /\ \E e \in {Entered(jit, junk) : junk \in Junk} : jit' = JitStoreStep(e)
  /\ obs' = Traced(IF jit'.state = "run" THEN Effect(Accessed(obs, jit))
                  ELSE Accessed(obs, jit))
  /\ UNCHANGED Rest

JitJa ==
  /\ JitAt({"ja"})
  /\ \E e \in {Entered(jit, junk) : junk \in Junk} : jit' = JitJaStep(e)
  /\ obs' = Traced(obs)
  /\ UNCHANGED Rest

JitJcc ==
  /\ JitAt(CondOps)
  /\ \E e \in {Entered(jit, junk) : junk \in Junk} : jit' = JitJccStep(e)
  /\ obs' = Traced(obs)
  /\ UNCHANGED Rest

JitSyscall ==
  /\ JitCallAt("syscall")
  /\ \E e \in {Entered(jit, junk) : junk \in Junk} : jit' = JitSyscallStep(e)
  /\ obs' = IF MeterExceeded(TRUE, jit.meter, jit.pc) THEN Traced(obs)
            ELSE Synced(Traced(Effect(obs)))
  /\ UNCHANGED Rest

JitCallUnresolved ==
  /\ JitCallAt("unresolved")
  /\ \E e \in {Entered(jit, junk) : junk \in Junk} : jit' = JitCallUnresolvedStep(e)
  /\ obs' = Traced(obs)
  /\ UNCHANGED Rest

JitBpfCall ==
  /\ JitCallAt("function")
  /\ \E e \in {Entered(jit, junk) : junk \in Junk} : jit' = emit_bpf_call(e, FALSE)
  /\ obs' = TracedCall(Called(obs, jit, jit'), jit')
  /\ UNCHANGED Rest

JitCallx ==
  /\ JitAt({"callx"})
  /\ \E e \in {Entered(jit, junk) : junk \in Junk} : jit' = emit_bpf_call(e, TRUE)
  /\ obs' = TracedCall(Called(obs, jit, jit'), jit')
  /\ UNCHANGED Rest

JitExit ==
  /\ JitAt({"exit"})
  /\ \E e \in {Entered(jit, junk) : junk \in Junk} : jit' = JitExitStep(e)
  /\ obs' = Traced(Returned(obs, jit, jit'))
  /\ UNCHANGED Rest

\* the reference run starts once the compiled run has returned
InterpStep ==
  /\ jit.state = "done"
  /\ interp.state = "run"
  /\ interp' = InterpNext(interp)
  /\ UNCHANGED << exe, cfg, budget, inputLen, jit, obs, elf >>

Next ==
  \/ JitAlu \/ JitDiv \/ JitLddw \/ JitLoad \/ JitStore \/ JitJa \/ JitJcc
  \/ JitSyscall \/ JitCallUnresolved \/ JitBpfCall \/ JitCallx \/ JitExit
  \/ InterpStep

Spec == Init /\ [][Next]_vars

\* the compiled code and the interpreter loop run without suspension points
FairSpec == Spec /\ WF_vars(Next)

----------------------------------------------------------------------------
(* Properties of the execution engines *)

JitDone == jit.state = "done"
BothDone == jit.state = "done" /\ interp.state = "done"
Metered == cfg.enable_instruction_meter

\* error kinds whose payload is a pc the engine fills in
PcKinds == {"ExceededMaxInstructions", "DivideByZero", "AccessViolation", "CallDepthExceeded",
            "CallOutsideTextSegment", "UnsupportedInstruction", "UnalignedCallTarget",
            "UnresolvedSymbol"}

SameOutcome(a, b) ==
  /\ a.kind = b.kind
  /\ (a.kind = "Ok" => a.value = b.value)
  /\ (a.kind \in PcKinds => a.pc = b.pc)

\* instructions the caller is told the compiled run executed
JitInstructionCount == budget - Max(0, jit.meter)

\* frames in use, the entry frame included
ActiveFrames == Len(obs.frames) + 1

\* depth the compiled code keeps in the stack_ptr slot of its environment
JitDepth(j) ==
  (AlignDown(j.stack_ptr, 2 * StackFrameSize) - MM_STACK_START) \div (2 * StackFrameSize) + 1

\* C1: for every verified program, input and budget, the compiled run and the
\* interpreter end with the same result: the same Ok(r0), or the same error kind
\* with the same pc.
C1_Refinement == BothDone => SameOutcome(jit.result, interp.result)

\* C2: the instruction count the compiled run reports (initial budget minus the
\* returned meter) equals the count of per-instruction charging from the entry
\* point, a lddw counting once, on Ok runs and on error runs alike.
C2_InstructionCount == (Metered /\ BothDone) => JitInstructionCount = interp.count

\* C3: with budget B no instruction beyond the B-th takes effect: the compiled run
\* performs at most B register writes, memory stores and upcalls.
C3_BudgetBound == Metered => obs.effects <= budget

\* programs whose control flow never reaches an exit
InfiniteLoops == { Exe(<< Ins(o, 0, 0, 0 - 1, 0), Exit >>, NoCalls, 0) : o \in {"ja", "jsge_reg"} }

C5_Translated ==
  [][(JitAt(LoadOps \cup StoreOps) /\ jit' # jit) =>
       LET insn == InsnAt(jit.pc)
           load == insn.opc \in LoadOps
           ea == W(jit.reg[IF load THEN insn.src ELSE insn.dst] + insn.off)
           acc == IF load THEN "Load" ELSE "Store"
           len == AccessLen(insn.opc)
           m == MemoryMapping_map(acc, ea, len)
       IN /\ obs'.access.pc = jit.pc
          /\ obs'.access.args = [access |-> acc, vm_addr |-> ea, len |-> len]
          /\ m.ok => obs'.access.touched = m.host .. (m.host + len - 1)
          /\ ~m.ok => /\ obs'.access.touched = {}
                      /\ jit'.mem = jit.mem
                      /\ jit'.state = "done"
                      /\ jit'.result.kind = "AccessViolation"
                      /\ jit'.result.pc = jit.pc + ELF_INSN_DUMP_OFFSET
          /\ (load \/ ~m.ok) => jit'.mem = jit.mem]_vars

C5_Witness ==
  /\ JitDone /\ jit.result.kind = "AccessViolation"
  /\ obs.access.pc >= 0 /\ ~obs.access.ok /\ obs.access.args.len = 8
  /\ obs.access.touched = {}

CallStep == jit.state = "run" /\ InsnAt(jit.pc).opc \in {"call_imm", "callx"} /\ jit' # jit
           /\ (InsnAt(jit.pc).opc = "call_imm" => CallKind(InsnAt(jit.pc).imm) = "function")

DepthError(pc) == ErrResult("CallDepthExceeded", pc + ELF_INSN_DUMP_OFFSET, cfg.max_call_depth)

\* C6 as stated: the active frames never exceed max_call_depth D; a call to a
\* bytecode function or a callx executed with D frames active fails with
\* CallDepthExceeded(pc, D); with fewer than D it is never rejected for depth.
C6_Original ==
  [][CallStep =>
       /\ ActiveFrames <= cfg.max_call_depth
       /\ ActiveFrames = cfg.max_call_depth => jit'.result = DepthError(jit.pc)
       /\ ActiveFrames < cfg.max_call_depth => jit'.result.kind # "CallDepthExceeded"]_vars

\* C6, amended: the same, for a callx only when its target lies inside the text
\* segment (the target is checked before the depth).
C6_CallDepth ==
  [][CallStep =>
       LET insn == InsnAt(jit.pc)
           inside == insn.opc = "callx" =>
                       ~OutsideText(AlignDown(jit.reg[insn.imm], INSN_SIZE))
       IN /\ ActiveFrames <= cfg.max_call_depth
          /\ (ActiveFrames = cfg.max_call_depth /\ inside) => jit'.result = DepthError(jit.pc)
          /\ ActiveFrames < cfg.max_call_depth => jit'.result.kind # "CallDepthExceeded"]_vars

C6_Witness ==
  /\ JitDone /\ jit.result.kind = "CallDepthExceeded"
  /\ cfg.max_call_depth >= 2 /\ ActiveFrames = cfg.max_call_depth

ReturnStep == JitAt({"exit"}) /\ jit'.state = "run"

\* C7: when a called function returns, the caller's r6..r9 and r10 hold the
\* values they had at the matching call.
C7_FrameEffect ==
  [][ReturnStep =>
       \A r \in 6..10 : jit'.reg[r] = obs.frames[Len(obs.frames)].reg[r]]_vars

C7_Witness == jit.state = "run" /\ obs.returns > 0 /\ obs.clobbered

\* C8: an exit in a called function resumes the caller at the instruction after
\* the call and lowers the depth by one; only an exit in the entry frame ends the
\* run, and it ends it with Ok(r0).
C8_ExitResumes ==
  [][(jit.state = "run" /\ jit' # jit) =>
       /\ ReturnStep =>
            /\ obs.frames # << >>
            /\ jit'.pc = obs.frames[Len(obs.frames)].pc + 1
            /\ Len(jit'.stack) = Len(jit.stack) - 6
            /\ JitDepth(jit') = JitDepth(jit) - 1
            /\ JitDepth(jit') = Len(obs.frames)
       /\ jit'.result.kind = "Ok" =>
            /\ InsnAt(jit.pc).opc = "exit" /\ obs.frames = << >>
            /\ jit'.result = OkResult(jit.reg[0])
       /\ (JitAt({"exit"}) /\ ~MeterExceeded(TRUE, jit.meter, jit.pc)) =>
            (obs.frames = << >> <=> jit'.result.kind = "Ok")]_vars

C8_Witness == JitDone /\ jit.result.kind = "Ok" /\ obs.returns >= 2

CallxStep == JitAt({"callx"}) /\ jit' # jit

\* C17 as stated: a callx whose target lies below program_vm_base or at or above
\* program_vm_base + text_length fails with CallOutsideTextSegment(pc of the
\* callx, target address) and runs nothing at the target; a target inside the
\* range transfers control to instruction (target - program_vm_base) / 8.
C17_Original ==
  [][CallxStep =>
       LET target == jit.reg[InsnAt(jit.pc).imm]
           outside == \/ target < MM_PROGRAM_START
                      \/ target >= MM_PROGRAM_START + NumInsns * INSN_SIZE
       IN /\ outside => /\ jit'.state = "done"
                        /\ jit'.result = ErrResult("CallOutsideTextSegment",
                                                   jit.pc + ELF_INSN_DUMP_OFFSET, target)
          /\ ~outside => /\ jit'.state = "run"
                         /\ jit'.pc = (target - MM_PROGRAM_START) \div INSN_SIZE]_vars

\* C17, amended: outside the range the error carries the pc of the callx and the
\* target rounded down to a multiple of the instruction size; inside the range
\* control goes to instruction (target - program_vm_base) / 8 unless the call is
\* rejected for call depth or budget or lands in the second slot of a lddw, and
\* then the run ends with that error.
C17_CallxTarget ==
  [][CallxStep =>
       LET target == jit.reg[InsnAt(jit.pc).imm]
           outside == \/ target < MM_PROGRAM_START
                      \/ target >= MM_PROGRAM_START + NumInsns * INSN_SIZE
           target_pc == (target - MM_PROGRAM_START) \div INSN_SIZE
           rejected == \/ ActiveFrames >= cfg.max_call_depth
                       \/ MeterExceeded(FALSE, jit.meter, jit.pc)
                       \/ InsnAt(target_pc).opc = "lddw_hi"
       IN /\ outside => /\ jit'.state = "done"
                        /\ jit'.result = ErrResult("CallOutsideTextSegment",
                                                   jit.pc + ELF_INSN_DUMP_OFFSET,
                                                   target - (target % INSN_SIZE))
          /\ (~outside /\ ~rejected) => jit'.state = "run" /\ jit'.pc = target_pc
          /\ (~outside /\ rejected)
               => /\ jit'.state = "done"
                  /\ jit'.result.kind \in {"CallDepthExceeded", "ExceededMaxInstructions",
                                           "UnsupportedInstruction"}]_vars

\* a callx with an unaligned target below the text was rejected with the rounded address
C17_Witness ==
  /\ JitDone /\ InsnAt(jit.pc).opc = "callx"
  /\ jit.result.kind = "CallOutsideTextSegment"
  /\ jit.result.aux # jit.reg[InsnAt(jit.pc).imm]
  /\ jit.result.aux = 0

\* C18: a callx whose target lies inside the text range and is no multiple of the
\* 8-byte instruction size ends the run with an error; no instruction is executed
\* at a rounded address.
C18_AlignedTarget ==
  [][CallxStep =>
       LET target == jit.reg[InsnAt(jit.pc).imm]
       IN (/\ MM_PROGRAM_START <= target
           /\ target < MM_PROGRAM_START + NumInsns * INSN_SIZE
           /\ target % INSN_SIZE # 0)
          => jit'.state = "done" /\ jit'.result.is_err]_vars

\* C19: a callx whose target is the second slot of a lddw, executed within the call
\* depth and with budget left for it, ends the run with UnsupportedInstruction
\* carrying the pc of that second slot, wherever the callx stands in the text.
C19_LddwSecondSlot ==
  [][CallxStep =>
       LET target == jit.reg[InsnAt(jit.pc).imm]
           target_pc == (target - MM_PROGRAM_START) \div INSN_SIZE
       IN (/\ MM_PROGRAM_START <= target
           /\ target < MM_PROGRAM_START + NumInsns * INSN_SIZE
           /\ InsnAt(target_pc).opc = "lddw_hi"
           /\ ActiveFrames < cfg.max_call_depth
           /\ ~MeterExceeded(FALSE, jit.meter, jit.pc))
          => /\ jit'.state = "done"
             /\ jit'.result.kind = "UnsupportedInstruction"
             /\ jit'.result.pc = target_pc + ELF_INSN_DUMP_OFFSET]_vars

\* C20: a call-immediate whose immediate is a key of the upcall registry invokes
\* that upcall with r1..r5 and stores its Ok value in r0 (an error ends the run
\* with it), also when the function registry holds the same key; the function
\* registry decides only for keys the upcall registry does not hold.
C20_UpcallFirst ==
  [][(JitAt({"call_imm"}) /\ jit' # jit) =>
       LET k == InsnAt(jit.pc).imm
           stopped == MeterExceeded(TRUE, jit.meter, jit.pc)
       IN /\ (k = KeyAdd /\ ~stopped)
               => /\ jit'.state = "run"
                  /\ jit'.reg = [jit.reg EXCEPT ![0] = W(jit.reg[1] + jit.reg[2])]
                  /\ jit'.pc = jit.pc + 1
                  /\ jit'.stack = jit.stack
                  /\ obs.effects < EffectCap => obs'.effects = obs.effects + 1
          /\ (k = KeyFail /\ ~stopped)
               => jit'.state = "done" /\ jit'.result.kind = "SyscallError"
          /\ (k \notin {KeyAdd, KeyFail} /\ jit'.state = "run")
               => k \in DOMAIN exe.calls /\ jit'.pc = exe.calls[k]
          /\ (k \notin {KeyAdd, KeyFail} /\ k \notin DOMAIN exe.calls)
               => jit'.result.kind = "UnresolvedSymbol"]_vars

\* the upcall has run for a key that also names a function
C20_Witness ==
  /\ KeyAdd \in DOMAIN exe.calls
  /\ jit.state = "run" /\ jit.pc = 3
  /\ jit.reg[0] = 5 /\ jit.stack = << >>

\* C21: a call-immediate whose immediate is in neither registry is compiled and
\* fails only when executed, with UnsupportedInstruction(pc of the call); the
\* instructions in front of it have taken effect and are counted.
C21_UnresolvedCall ==
  [][(JitAt({"call_imm"}) /\ jit' # jit) =>
       LET k == InsnAt(jit.pc).imm
       IN (k \notin DOMAIN SyscallRegistry /\ k \notin DOMAIN exe.calls)
          => /\ jit'.state = "done"
             /\ jit'.result.kind = "UnsupportedInstruction"
             /\ jit'.result.pc = jit.pc + ELF_INSN_DUMP_OFFSET
             /\ jit'.reg = jit.reg
             /\ Metered => budget - jit'.meter = jit.pc + 1]_vars

\* a call-immediate to an upcall that returns an error, not stopped by the budget check
FailedUpcallStep ==
  /\ JitAt({"call_imm"}) /\ jit' # jit
  /\ InsnAt(jit.pc).imm \in DOMAIN SyscallRegistry
  /\ SyscallResult(SyscallRegistry[InsnAt(jit.pc).imm], jit.reg).is_err
  /\ ~MeterExceeded(TRUE, jit.meter, jit.pc)

C24_CappedBeforeException ==
  [][(jit.state = "run" /\ jit' # jit) =>
       LET insn == InsnAt(jit.pc)
           faulting == \/ insn.opc \in {"div64_reg", "mod64_reg"} /\ jit.reg[insn.src] = 0
                       \/ insn.opc \in {"div32_reg", "mod32_reg"} /\ jit.reg[insn.src] % Half = 0
                       \/ /\ insn.opc = "call_imm"
                          /\ insn.imm \notin DOMAIN SyscallRegistry
                          /\ insn.imm \notin DOMAIN exe.calls
           remaining == jit.meter - jit.pc
       IN faulting =>
            /\ jit'.state = "done"
            /\ (Metered /\ remaining < 1)
                 <=> jit'.result = ErrResult("ExceededMaxInstructions",
                                             jit.pc + ELF_INSN_DUMP_OFFSET, 0)]_vars

\* C25: the trace log holds exactly one (pc, r0..r10) snapshot per executed
\* instruction, taken before the instruction takes effect and appended in execution
\* order, the instruction that raises an error included (for a callx into the
\* second slot of a lddw: the callx, then that slot); the log of the compiled run
\* equals the interpreter's as an ordered list.
C25_TraceLog ==
  [][/\ (jit.state = "run" /\ Len(obs.trace) + 2 <= TraceCap) =>
          LET snap == [pc |-> jit.pc, reg |-> jit.reg]
              target_pc == (jit.reg[InsnAt(jit.pc).imm] - MM_PROGRAM_START) \div INSN_SIZE
          IN IF InsnAt(jit.pc).opc = "callx" /\ jit'.result.kind = "UnsupportedInstruction"
             THEN obs'.trace = obs.trace \o << snap, [pc |-> target_pc, reg |-> jit'.reg] >>
             ELSE obs'.trace = Append(obs.trace, snap)
     /\ (jit'.state = "done" /\ interp'.state = "done") => obs'.trace = interp'.trace]_vars

----------------------------------------------------------------------------
(* ELF loader (src/src/elf.rs): call rewriting and relocation.  The text   *)
(* section is held as instruction slots, every other section as bytes.     *)

NumKeys == 2

BYTE_OFFSET_IMMEDIATE == 4
BYTE_LENGTH_IMMEIDATE == 4
TEXT_SECTION_INDEX == 0

\* values of an i32 and its two's complement wrap-around
I32Max == Half \div 2 - 1
I32Min == 0 - Half \div 2
WrapI32(x) == ((x + Half \div 2) % Half) - Half \div 2
\* an i32 read as u32
U32(x) == x % Half

\* LittleEndian::write_* into a fresh buffer
LEBytes(v, n) == [k \in 1..n |-> (v \div (Byte ^ (k - 1))) % Byte]

RECURSIVE ReadLE(_, _, _)
\* LittleEndian::read_* of n bytes at byte offset off
ReadLE(bytes, off, n) ==
  IF n = 0 THEN 0 ELSE bytes[off + 1] + Byte * ReadLE(bytes, off + 1, n - 1)

\* LittleEndian::write_* of n bytes at byte offset off
WriteLE(bytes, off, n, v) ==
  [k \in 1..Len(bytes) |->
     IF off < k /\ k <= off + n THEN (v \div (Byte ^ (k - off - 1))) % Byte ELSE bytes[k]]

\* section addresses declared by the image
ElfTextVa == 64
ElfDataVa == 128

\* .dynsym: a function defined in .text, an undefined symbol, an undefined
\* function and an object in .rodata
ElfSymbols == << [name |-> << 1 >>, stype |-> "FUNC", value |-> ElfTextVa + INSN_SIZE],
                 [name |-> << 2 >>, stype |-> "NOTYPE", value |-> 0],
                 [name |-> << 3 >>, stype |-> "FUNC", value |-> 0],
                 [name |-> << 0 >>, stype |-> "OBJECT", value |-> ElfDataVa] >>

\* .rodata: four 32-bit words
ElfData == LEBytes(0, 4) \o LEBytes(ElfDataVa + 8, 4) \o LEBytes(ElfTextVa, 4) \o LEBytes(0, 4)

Rel(t, a, y) == [rtype |-> t, addr |-> a, sym |-> y]
Image(t, r) == [text |-> t, relocs |-> r]

\* images handed to the loader: text and .rel.dyn
ElfImages == {
  Image(<< Call(0), Exit >>, << >>),
  Image(<< Call(1), Exit, Exit >>, << >>),
  Image(<< Exit, Call(0 - 2), Exit >>, << >>),
  Image(<< Call(1), Call(0 - 1), Exit >>, << Rel("R_BPF_64_32", ElfTextVa + INSN_SIZE, 1) >>),
  Image(<< Call(0), Call(0), Exit >>, << >>),
  Image(<< Call(1), Mov(0, 1), Call(0 - 3), Exit >>, << >>),
  Image(<< Call(2), Exit >>, << >>),
  Image(<< Exit, Call(0 - 3), Exit >>, << >>),
  Image(<< Call(I32Max), Exit >>, << >>),
  Image(Lddw(1, ElfDataVa + 4) \o << Call(0), Exit >>, << Rel("R_BPF_64_RELATIVE", ElfTextVa, 0) >>),
  Image(Lddw(1, ElfTextVa + INSN_SIZE) \o << Exit >>, << Rel("R_BPF_64_RELATIVE", ElfTextVa, 0) >>),
  Image(Lddw(1, 0) \o << Exit >>, << Rel("R_BPF_64_RELATIVE", ElfTextVa, 0) >>),
  Image(Lddw(1, 7) \o << Exit >>, << Rel("R_BPF_64_RELATIVE", ElfTextVa, 0) >>),
  Image(<< Mov(0, 0), Exit >>, << Rel("R_BPF_64_RELATIVE", ElfDataVa, 0),
                                  Rel("R_BPF_64_RELATIVE", ElfDataVa + 8, 0) >>),
  Image(<< Mov(0, 0), Exit >>, << Rel("R_BPF_64_RELATIVE", ElfDataVa + 4, 0) >>),
  Image(<< Mov(0, 0), Exit >>, << Rel("R_BPF_64_RELATIVE", ElfDataVa + 12, 0) >>),
  Image(<< Mov(0, 0), Exit >>, << Rel("R_BPF_64_RELATIVE", ElfDataVa + 16, 0) >>),
  Image(<< Call(0 - 1), Call(0 - 1), Exit >>, << Rel("R_BPF_64_32", ElfTextVa, 1),
                                                 Rel("R_BPF_64_32", ElfTextVa + INSN_SIZE, 2) >>),
  Image(<< Mov(0, 0), Exit >>, << Rel("R_BPF_64_64", ElfTextVa, 0) >>),
  Image(<< Mov(0, 0), Exit >>, << Rel("R_BPF_NONE", ElfTextVa, 0) >>),
  Image(<< Call(0 - 1), Call(0 - 1), Exit >>, << Rel("R_BPF_64_32", ElfTextVa, 3),
                                                 Rel("R_BPF_64_32", ElfTextVa + INSN_SIZE, 4) >>),
  Image(<< Call(0 - 1), Exit >>, << Rel("R_BPF_64_32", ElfTextVa, 1),
                                    Rel("R_X86_64_PC32", ElfTextVa, 0) >>),
  Image(<< Call(0 - 1), Exit >>, << Rel("R_BPF_64_32", ElfTextVa, 1),
                                    Rel("R_UNKNOWN", ElfTextVa, 0) >>),
  Image(<< Call(0 - 1) >>, << Rel("R_BPF_64_32", ElfTextVa, 1) >>)
}

\* names hash_symbol_name is applied to: encoded instruction indices, symbol names
ElfNames == { LEBytes(i, 8) : i \in 0..3 } \cup { ElfSymbols[y].name : y \in 1..Len(ElfSymbols) }

\* addresses the allocator may give the section buffers (bytes.as_ptr())
HostBuffers == { << 5 * Half + 16, 6 * Half >>, << 7 * Half, 5 * Half + 8 >> }

\* SectionInfo of .text and .rodata, in the order of get_load_sections
SectionInfos(e) ==
  << [va |-> ElfTextVa, len |-> INSN_SIZE * Len(e.text), host |-> e.host[1]],
     [va |-> ElfDataVa, len |-> Len(e.data), host |-> e.host[2]] >>

\* section_infos[k], counted from zero as in the loader
Section(infos, k) == infos[k + 1]

\* index of the first section whose range holds addr, -1 when there is none
FindSection(infos, addr) ==
  LET hits == { k \in 0..(Len(infos) - 1) :
                  Section(infos, k).va <= addr
                  /\ addr < Section(infos, k).va + Section(infos, k).len }
  IN IF hits = {} THEN 0 - 1 ELSE CHOOSE k \in hits : \A h \in hits : k <= h

ElfFail(e, msg) == [e EXCEPT !.phase = "failed", !.err = msg]

\* a target relative to the call itself
FixupTarget_FromCall(i, imm) == WrapI32(i + imm)

\* insn_idx = (i as i32 + 1 + insn.imm) as isize
FixupTarget(i, imm) == WrapI32(i + 1 + imm)

\* one iteration of the loop of fixup_relative_calls, at instruction e.i
FixupIteration(e) ==
  LET i == e.i
      insn == e.text[i + 1]
      n == Len(e.text)
      insn_idx == FixupTarget(i, insn.imm)
      hash == e.hash[LEBytes(i, 8)]
      inserted == [k \in DOMAIN e.calls \cup {hash} |-> IF k = hash THEN insn_idx ELSE e.calls[k]]
      next == [e EXCEPT !.i = i + 1,
                        !.phase = IF i + 1 < n THEN "fixup"
                                  ELSE IF e.relocs = << >> THEN "loaded" ELSE "relocate"]
  IN IF insn.opc = "call_imm" /\ insn.imm # 0 - 1
     THEN IF insn_idx < 0 \/ insn_idx >= n
          THEN ElfFail(e, "Relative jump is out of bounds")
          ELSE IF hash \in DOMAIN e.calls
          THEN ElfFail([e EXCEPT !.calls = inserted], "Relocation hash collision")
          ELSE [next EXCEPT !.calls = inserted, !.text[i + 1].imm = WrapI32(hash)]
     ELSE next

\* build-dependent outcome of the i32 addition: a debug build panics on overflow
FixupOverflows(e) ==
  LET insn == e.text[e.i + 1]
  IN /\ insn.opc = "call_imm" /\ insn.imm # 0 - 1
     /\ e.i + 1 + insn.imm > I32Max

\* the R_BPF_64_RELATIVE arm of relocate
RelocateRelative(e, rel) ==
  LET infos == SectionInfos(e)
      target_section == FindSection(infos, rel.addr)
      target_offset == rel.addr - Section(infos, target_section).va
      imm_offset == target_offset + BYTE_OFFSET_IMMEDIATE
      in_text == target_section = TEXT_SECTION_INDEX
      slot == target_offset \div INSN_SIZE + 1
      refd_va == IF in_text THEN U32(e.text[slot].imm)
                 ELSE ReadLE(e.data, imm_offset, BYTE_LENGTH_IMMEIDATE)
      refd_section == FindSection(infos, refd_va)
      refd_offset == refd_va - Section(infos, refd_section).va
      refd_pa == W(Section(infos, refd_section).host + refd_offset)
      lo == [e EXCEPT !.text[slot].imm = WrapI32(Lo32(refd_pa))]
      next == [e EXCEPT !.r = e.r + 1]
  IN IF target_section < 0
     THEN ElfFail(e, "no loadable section contains the relocation address")
     ELSE IF imm_offset + BYTE_LENGTH_IMMEIDATE > Section(infos, target_section).len
     THEN ElfFail(e, "panic")
     ELSE IF refd_va = 0
     THEN next
     ELSE IF refd_section < 0
     THEN ElfFail(e, "no loadable section contains the referenced address")
     ELSE IF in_text
     THEN IF imm_offset + INSN_SIZE + BYTE_LENGTH_IMMEIDATE > Section(infos, target_section).len
          THEN ElfFail(lo, "panic")
          ELSE [next EXCEPT !.text[slot].imm = WrapI32(Lo32(refd_pa)),
                            !.text[slot + 1].imm = WrapI32(refd_pa \div Half)]
     ELSE IF target_offset + 8 > Section(infos, target_section).len
     THEN ElfFail(e, "panic")
     ELSE [next EXCEPT !.data = WriteLE(e.data, target_offset, 8, refd_pa)]

\* the R_BPF_64_32 arm, recording every function symbol
RelocateSymbol_AnyValue(e, rel) ==
  LET symbol == ElfSymbols[rel.sym]
      hash == e.hash[symbol.name]
      slot == (rel.addr - ElfTextVa) \div INSN_SIZE + 1
      idx == (symbol.value - ElfTextVa) \div INSN_SIZE
      written == [e EXCEPT !.r = e.r + 1, !.text[slot].imm = WrapI32(hash)]
  IN IF symbol.stype = "FUNC"
     THEN [written EXCEPT !.calls = [k \in DOMAIN e.calls \cup {hash} |->
                                       IF k = hash THEN idx ELSE e.calls[k]]]
     ELSE written

\* the R_BPF_64_32 arm of relocate
RelocateSymbol(e, rel) ==
  LET symbol == ElfSymbols[rel.sym]
      hash == e.hash[symbol.name]
      slot == (rel.addr - ElfTextVa) \div INSN_SIZE + 1
      idx == (symbol.value - ElfTextVa) \div INSN_SIZE
      written == [e EXCEPT !.r = e.r + 1, !.text[slot].imm = WrapI32(hash)]
  IN IF symbol.stype = "FUNC" /\ symbol.value # 0
     THEN [written EXCEPT !.calls = [k \in DOMAIN e.calls \cup {hash} |->
                                       IF k = hash THEN idx ELSE e.calls[k]]]
     ELSE written

\* the raw type numbers of .rel.dyn are read as elfkit relocation types; a number
\* elfkit does not know ("R_UNKNOWN") fails the parse of the whole section
get_relocations(relocs) ==
  IF \E k \in 1..Len(relocs) : relocs[k].rtype = "R_UNKNOWN"
  THEN "unknown relocation type" ELSE "ok"

\* a type read as if it were R_BPF_64_RELATIVE
from_x86_relocation_type_Relative(rtype) ==
  IF rtype \in {"R_BPF_64_64", "R_BPF_64_RELATIVE"} THEN "R_BPF_64_RELATIVE"
  ELSE IF rtype \in {"R_BPF_NONE", "R_BPF_64_32"} THEN rtype ELSE "None"

\* R_X86_64_NONE, _64, _RELATIVE and _32 carry the numbers of the four BPF types
from_x86_relocation_type(rtype) ==
  IF rtype \in {"R_BPF_NONE", "R_BPF_64_64", "R_BPF_64_RELATIVE", "R_BPF_64_32"}
  THEN rtype ELSE "None"

\* one iteration of the loop over .rel.dyn in relocate; the first one follows the
\* parse of the section
RelocateIteration(e) ==
  LET rel == e.relocs[e.r]
      rtype == from_x86_relocation_type(rel.rtype)
      done == CASE rtype = "R_BPF_64_RELATIVE" -> RelocateRelative(e, rel)
                [] rtype = "R_BPF_64_32" -> RelocateSymbol(e, rel)
                [] OTHER -> ElfFail(e, "Unhandled relocation type")
  IN IF e.r = 1 /\ get_relocations(e.relocs) # "ok"
     THEN ElfFail(e, get_relocations(e.relocs))
     ELSE IF done.phase = "relocate" /\ done.r > Len(e.relocs)
     THEN [done EXCEPT !.phase = "loaded"]
     ELSE done

\* the loader before the first step of relocate
ElfInit(image, h, bufs) ==
  [phase |-> "fixup", err |-> "", text |-> image.text, data |-> ElfData, calls |-> NoCalls,
   i |-> 0, r |-> 1, relocs |-> image.relocs, hash |-> h, host |-> bufs]

\* the execution engines stand still while an image is loaded
VmIdle ==
  /\ exe = Exe(<< Exit >>, NoCalls, 0)
  /\ cfg = [max_call_depth |-> 1, stack_frame_size |-> INSN_SIZE,
            enable_instruction_meter |-> FALSE, enable_instruction_tracing |-> FALSE]
  /\ budget = 0
  /\ inputLen = 0
  /\ jit = [JitInit EXCEPT !.state = "idle"]
  /\ interp = [InterpInit EXCEPT !.state = "idle"]
  /\ obs = ObsInit

InitElf ==
  /\ VmIdle
  /\ \E image \in ElfImages, h \in [ElfNames -> 1..NumKeys], bufs \in HostBuffers :
       elf = ElfInit(image, h, bufs)

ElfFixupRelativeCalls ==
  /\ elf.phase = "fixup"
  /\ \/ elf' = FixupIteration(elf)
     \/ FixupOverflows(elf) /\ elf' = ElfFail(elf, "panic")
  /\ UNCHANGED vmvars

ElfRelocate ==
  /\ elf.phase = "relocate"
  /\ elf' = RelocateIteration(elf)
  /\ UNCHANGED vmvars

NextElf == ElfFixupRelativeCalls \/ ElfRelocate

SpecElf == InitElf /\ [][NextElf]_vars

----------------------------------------------------------------------------
(* ELF header checks and the entry point (src/src/elf.rs).  The loader's   *)
(* record carries in addition the header, the section names, the result of *)
(* validate() for the current header and the result of                     *)
(* get_entrypoint_instruction_offset() for it ("none": not asked yet).     *)

\* header fields and the values the loader tells apart
ElfHeaders ==
  [ident_class : {"Class32", "Class64"}, ident_endianness : {"BigEndian", "LittleEndian"},
   ident_abi : {"ARM", "SYSV"}, machine : {"QDSP6", "BPF"}, etype : {"REL", "DYN"},
   entry : {1, ElfTextVa - INSN_SIZE, ElfTextVa, ElfTextVa + INSN_SIZE,
            ElfTextVa + INSN_SIZE + 1, ElfTextVa + 2 * INSN_SIZE, ElfTextVa + 3 * INSN_SIZE}]

\* validate without the ABI check
validate_AnyAbi(header, sections) ==
  IF header.ident_class # "Class64" THEN "Incompatible ELF: wrong class"
  ELSE IF header.ident_endianness # "LittleEndian" THEN "Incompatible ELF: wrong endianess"
  ELSE IF header.machine # "BPF" THEN "Incompatible ELF: wrong machine"
  ELSE IF header.etype # "DYN" THEN "Incompatible ELF: wrong type"
  ELSE IF Cardinality({ k \in 1..Len(sections) :
                          sections[k] \in {".text", ".text.startup"} }) > 1
  THEN "Multiple text sections"
  ELSE "ok"

\* validate: the header fields in the order of the checks, then the number of
\* sections whose name starts with ".text"
validate(header, sections) ==
  IF header.ident_class # "Class64" THEN "Incompatible ELF: wrong class"
  ELSE IF header.ident_endianness # "LittleEndian" THEN "Incompatible ELF: wrong endianess"
  ELSE IF header.ident_abi # "SYSV" THEN "Incompatible ELF: wrong abi"
  ELSE IF header.machine # "BPF" THEN "Incompatible ELF: wrong machine"
  ELSE IF header.etype # "DYN" THEN "Incompatible ELF: wrong type"
  ELSE IF Cardinality({ k \in 1..Len(sections) :
                          sections[k] \in {".text", ".text.startup"} }) > 1
  THEN "Multiple text sections"
  ELSE "ok"

\* get_entrypoint_instruction_offset for a text section at addr of size bytes
get_entrypoint_instruction_offset(entry, addr, size) ==
  IF entry < addr \/ entry > addr + size
  THEN [ok |-> FALSE, index |-> 0, err |-> "Entrypoint out of bounds"]
  ELSE IF (entry - addr) % INSN_SIZE # 0
  THEN [ok |-> FALSE, index |-> 0, err |-> "Entrypoint not multiple of instruction size"]
  ELSE [ok |-> TRUE, index |-> (entry - addr) \div INSN_SIZE, err |-> ""]

\* load is handed an image with any header and one of a few section lists
InitHeader ==
  /\ VmIdle
  /\ \E image \in {Image(<< Mov(0, 0), Exit >>, << >>),
                    Image(<< Call(0 - 1), Exit >>, << Rel("R_BPF_64_32", ElfTextVa, 1) >>)},
        header \in ElfHeaders,
        sections \in {<< ".text", ".rodata" >>, << ".rodata" >>, << ".text.startup" >>,
                      << ".text", ".text.startup" >>, << ".text", ".text" >>} :
       elf = [ElfInit(image, [x \in ElfNames |-> 1], << 5 * Half + 16, 6 * Half >>)
                EXCEPT !.phase = "validate"]
             @@ [header |-> header, sections |-> sections, valid |-> "none",
                 offset |-> [ok |-> FALSE, index |-> 0, err |-> "none"]]

\* load up to the call rewriting: validate, then the lookup of .text by name
ElfLoadValidate ==
  /\ elf.phase = "validate"
  /\ elf' = IF validate(elf.header, elf.sections) # "ok"
            THEN ElfFail(elf, validate(elf.header, elf.sections))
            ELSE IF \A k \in 1..Len(elf.sections) : elf.sections[k] # ".text"
            THEN ElfFail(elf, "No \".text\" section")
            ELSE [elf EXCEPT !.phase = "fixup"]
  /\ UNCHANGED vmvars

\* the owner of a loaded image overwrites one header field
ElfSetHeader ==
  /\ elf.phase = "loaded"
  /\ \E header \in ElfHeaders :
       /\ Cardinality({ f \in DOMAIN header : header[f] # elf.header[f] }) = 1
       /\ elf' = [elf EXCEPT !.header = header, !.valid = "none",
                             !.offset = [ok |-> FALSE, index |-> 0, err |-> "none"]]
  /\ UNCHANGED vmvars

\* validate() on a loaded image
ElfCallValidate ==
  /\ elf.phase = "loaded"
  /\ elf' = [elf EXCEPT !.valid = validate(elf.header, elf.sections)]
  /\ UNCHANGED vmvars

\* get_entrypoint_instruction_offset() on a loaded image
ElfGetEntrypoint ==
  /\ elf.phase = "loaded"
  /\ elf' = [elf EXCEPT !.offset = get_entrypoint_instruction_offset(
                                     elf.header.entry, ElfTextVa, INSN_SIZE * Len(elf.text))]
  /\ UNCHANGED vmvars

NextHeader ==
  \/ ElfLoadValidate
  \/ ElfFixupRelativeCalls
  \/ ElfRelocate
  \/ ElfSetHeader
  \/ ElfCallValidate
  \/ ElfGetEntrypoint

SpecHeader == InitHeader /\ [][NextHeader]_vars

----------------------------------------------------------------------------
(* Life of a JIT-compiled program (src/src/jit.rs): JitProgram::new on an  *)
(* executable, the pages of JitProgramSections, seal and drop.  The record *)
(* is the executable artifact on its way through the pipeline.             *)

\* slots of the longest text compiled here
MaxSlots == 4
\* runs of one compiled program that are told apart
MaxRuns == 2

\* scaled: a page holds two pc_section entries (the source's 4096 bytes hold 512)
PAGE_SIZE == 2 * INSN_SIZE

round_to_page_size(value) == ((value + PAGE_SIZE - 1) \div PAGE_SIZE) * PAGE_SIZE

\* pages mprotect changes when handed len bytes from the start of a section
PagesOf(len) == round_to_page_size(len) \div PAGE_SIZE

\* JitProgramSections::new(pc, code_size): pc table entries, then the code bytes
JitProgramSections_new(pc, code_size) ==
  [pc_section |-> pc, text_section |-> round_to_page_size(code_size),
   pc_pages |-> [k \in 1..PagesOf(pc * 8) |-> "rw"],
   text_pages |-> [k \in 1..PagesOf(code_size) |-> "rw"],
   freed |-> FALSE]

\* mprotect(start of the section, round_to_page_size(len), prot)
mprotect(pages, len, prot) ==
  [k \in DOMAIN pages |-> IF k <= PagesOf(len) THEN prot ELSE pages[k]]

\* JitProgramSections::seal: the lengths are those of the two slices
seal(sec) ==
  IF sec.pc_section = 0 THEN sec
  ELSE [sec EXCEPT !.pc_pages = mprotect(@, sec.pc_section, "r"),
                   !.text_pages = mprotect(@, sec.text_section, "rx")]

\* Drop for JitProgramSections
drop(sec) ==
  IF sec.pc_section = 0 THEN sec
  ELSE [sec EXCEPT !.pc_pages = mprotect(@, sec.pc_section, "rw"),
                   !.text_pages = mprotect(@, sec.text_section, "rw"),
                   !.freed = TRUE]



\* an executable out of the loader: verified or not, slots instruction slots, the
\* slot unknown holding an opcode the compiler has no case for (0: none)
InitJitProgram ==
  /\ VmIdle
  /\ \E verified \in BOOLEAN, slots \in 1..MaxSlots :
       \E unknown \in 0..slots :
         elf = [phase |-> "loaded", verified |-> verified, slots |-> slots,
                unknown |-> unknown, sections |-> JitProgramSections_new(0, 0), pc |-> 0, patched |-> FALSE,
                runs |-> 0]

\* the verifier admits the executable or rejects it for the opcode it does not know
JitVerify ==
  /\ elf.phase = "loaded" /\ ~elf.verified
  /\ elf' = IF elf.unknown = 0 THEN [elf EXCEPT !.verified = TRUE]
            ELSE [elf EXCEPT !.phase = "rejected"]
  /\ UNCHANGED vmvars

\* JitProgram::new up to the loop of compile: JitCompiler::new allocates the sections
\* (code bytes scaled: one page per slot and two more, for pc * 256 + 512)
JitProgramNew ==
  /\ elf.phase = "loaded"
  /\ elf' = [elf EXCEPT !.phase = "compiling",
                        !.sections = JitProgramSections_new(elf.slots + 1,
                                                            (elf.slots + 2) * PAGE_SIZE)]
  /\ UNCHANGED vmvars

\* one round of the loop of compile: the pc_section entry and the code of the slot,
\* or the error return, which drops the compiler and its sections
JitCompileInsn ==
  /\ elf.phase = "compiling" /\ elf.pc < elf.slots
  /\ elf' = IF elf.pc + 1 = elf.unknown
            THEN [elf EXCEPT !.phase = "failed", !.sections = drop(@)]
            ELSE [elf EXCEPT !.pc = @ + 1]
  /\ UNCHANGED vmvars

\* the end of compile: bumper, epilogue, resolve_jumps, seal
JitCompileEnd ==
  /\ elf.phase = "compiling" /\ elf.pc = elf.slots
  /\ elf' = [elf EXCEPT !.pc = @ + 1, !.patched = TRUE, !.sections = seal(@),
                        !.phase = "sealed"]
  /\ UNCHANGED vmvars

\* a run of the compiled program: the pages are only read and executed
JitExecute ==
  /\ elf.phase = "sealed" /\ elf.runs < MaxRuns
  /\ elf' = [elf EXCEPT !.runs = @ + 1]
  /\ UNCHANGED vmvars

\* the JitProgram goes out of scope
JitProgramDrop ==
  /\ elf.phase = "sealed"
  /\ elf' = [elf EXCEPT !.phase = "dropped", !.sections = drop(@)]
  /\ UNCHANGED vmvars

NextJitProgram ==
  \/ JitVerify
  \/ JitProgramNew
  \/ JitCompileInsn
  \/ JitCompileEnd
  \/ JitExecute
  \/ JitProgramDrop

SpecJitProgram == InitJitProgram /\ [][NextJitProgram]_vars

----------------------------------------------------------------------------
(* Properties of the loader *)

\* the relocation the loader is about to process
CurrentReloc == elf.relocs[elf.r]

RelativeStep ==
  /\ elf.phase = "relocate" /\ CurrentReloc.rtype = "R_BPF_64_RELATIVE"
  /\ elf'.phase # "failed"
  /\ (elf'.text # elf.text \/ elf'.data # elf.data)

\* C9: every value an R_BPF_64_RELATIVE relocation writes, into the immediate pair
\* of a lddw in .text or into a 64-bit data word, is the guest virtual address of
\* the referenced location; no host address is stored in text or data.
C9_GuestAddresses ==
  [][RelativeStep =>
       LET infos == SectionInfos(elf)
           ts == FindSection(infos, CurrentReloc.addr)
           off == CurrentReloc.addr - Section(infos, ts).va
           slot == off \div INSN_SIZE + 1
           stored == IF ts = TEXT_SECTION_INDEX
                     THEN U32(elf.text[slot].imm)
                     ELSE ReadLE(elf.data, off + BYTE_OFFSET_IMMEDIATE, BYTE_LENGTH_IMMEIDATE)
           written == IF ts = TEXT_SECTION_INDEX
                      THEN U32(elf'.text[slot].imm) + Half * U32(elf'.text[slot + 1].imm)
                      ELSE ReadLE(elf'.data, off, 8)
       IN /\ written = stored
          /\ FindSection(infos, written) >= 0]_vars

FixupStep == elf.phase = "fixup" /\ elf' # elf

\* the other fields of instruction i and every other instruction are as before
OnlyImmChanged(i) == elf'.text = [elf.text EXCEPT ![i + 1].imm = elf'.text[i + 1].imm]

\* C10 as stated: a call-immediate at index i with imm # -1 and target = i + 1 + imm
\* makes loading fail when target is outside [0, n); otherwise its immediate becomes
\* key = hash_symbol_name(8-byte little-endian i) and function_registry[key] = target;
\* nothing else in the text changes.
C10_Original ==
  [][FixupStep =>
       LET i == elf.i
           insn == elf.text[i + 1]
           target == i + 1 + insn.imm
           key == elf.hash[LEBytes(i, 8)]
       IN IF insn.opc = "call_imm" /\ insn.imm # 0 - 1
          THEN IF target < 0 \/ target >= Len(elf.text)
               THEN elf'.phase = "failed"
               ELSE /\ elf'.phase # "failed"
                    /\ U32(elf'.text[i + 1].imm) = key
                    /\ key \in DOMAIN elf'.calls /\ elf'.calls[key] = target
                    /\ OnlyImmChanged(i)
          ELSE elf'.phase # "failed" /\ elf'.text = elf.text /\ elf'.calls = elf.calls]_vars

\* C10, amended: the same, except that loading also fails when the key is already
\* in the function registry.
C10_CallRewriting ==
  [][FixupStep =>
       LET i == elf.i
           insn == elf.text[i + 1]
           target == i + 1 + insn.imm
           key == elf.hash[LEBytes(i, 8)]
       IN IF insn.opc = "call_imm" /\ insn.imm # 0 - 1
          THEN IF target < 0 \/ target >= Len(elf.text) \/ key \in DOMAIN elf.calls
               THEN elf'.phase = "failed"
               ELSE /\ elf'.phase # "failed"
                    /\ U32(elf'.text[i + 1].imm) = key
                    /\ key \in DOMAIN elf'.calls /\ elf'.calls[key] = target
                    /\ \A k \in DOMAIN elf.calls : elf'.calls[k] = elf.calls[k]
                    /\ OnlyImmChanged(i)
          ELSE elf'.phase # "failed" /\ elf'.text = elf.text /\ elf'.calls = elf.calls]_vars

\* two calls rewritten, one of them backward, next to an untouched instruction
C10_Witness ==
  /\ elf.phase = "loaded" /\ Len(elf.text) = 4
  /\ Cardinality(DOMAIN elf.calls) = 2
  /\ \E k \in DOMAIN elf.calls : elf.calls[k] = 0 /\ U32(elf.text[3].imm) = k

\* C11: a hash collision is a load-time failure: whenever loading would register,
\* by call rewriting or by an R_BPF_64_32 relocation, a key the function registry
\* already holds for a different target, load fails instead of replacing or
\* keeping one target.
C11_CollisionFails ==
  [][LET byCall == /\ elf.phase = "fixup"
                   /\ elf.text[elf.i + 1].opc = "call_imm"
                   /\ elf.text[elf.i + 1].imm # 0 - 1
                   /\ elf.i + 1 + elf.text[elf.i + 1].imm \in 0..(Len(elf.text) - 1)
         bySymbol == /\ elf.phase = "relocate"
                     /\ CurrentReloc.rtype = "R_BPF_64_32"
                     /\ ElfSymbols[CurrentReloc.sym].stype = "FUNC"
                     /\ ElfSymbols[CurrentReloc.sym].value # 0
         key == IF byCall THEN elf.hash[LEBytes(elf.i, 8)]
                ELSE elf.hash[ElfSymbols[CurrentReloc.sym].name]
         target == IF byCall THEN elf.i + 1 + elf.text[elf.i + 1].imm
                   ELSE (ElfSymbols[CurrentReloc.sym].value - ElfTextVa) \div INSN_SIZE
     IN ((byCall \/ bySymbol) /\ key \in DOMAIN elf.calls /\ elf.calls[key] # target)
          => elf'.phase = "failed"]_vars

C13_StoredAddress ==
  [][LET infos == SectionInfos(elf)
         ts == FindSection(infos, CurrentReloc.addr)
         off == CurrentReloc.addr - Section(infos, ts).va
         slot == off \div INSN_SIZE + 1
         in_text == ts = TEXT_SECTION_INDEX
         stored == IF in_text
                   THEN U32(elf.text[slot].imm) + Half * U32(elf.text[slot + 1].imm)
                   ELSE ReadLE(elf.data, off, 8)
         rs == FindSection(infos, stored)
         written == IF in_text
                    THEN U32(elf'.text[slot].imm) + Half * U32(elf'.text[slot + 1].imm)
                    ELSE ReadLE(elf'.data, off, 8)
     IN (/\ elf.phase = "relocate" /\ elf' # elf
         /\ get_relocations(elf.relocs) = "ok"
         /\ CurrentReloc.rtype = "R_BPF_64_RELATIVE"
         /\ ts >= 0
         /\ IF in_text THEN slot + 1 <= Len(elf.text) ELSE off + 8 <= Len(elf.data))
        => IF stored = 0
           THEN elf'.phase # "failed" /\ elf'.text = elf.text /\ elf'.data = elf.data
           ELSE IF rs < 0
           THEN elf'.phase = "failed"
           ELSE /\ elf'.phase # "failed"
                /\ written = W(Section(infos, rs).host + stored - Section(infos, rs).va)]_vars

\* C14: for each R_BPF_64_32 relocation the loader writes
\* key = hash_symbol_name(symbol name) into the immediate of the call at the
\* relocation address, and records function_registry[key] =
\* (symbol.value - text base) / 8 if and only if the symbol is a function with a
\* non-zero value.
C14_SymbolRelocation ==
  [][(/\ elf.phase = "relocate" /\ elf' # elf
      /\ get_relocations(elf.relocs) = "ok"
      /\ CurrentReloc.rtype = "R_BPF_64_32")
     => LET symbol == ElfSymbols[CurrentReloc.sym]
            key == elf.hash[symbol.name]
            i == (CurrentReloc.addr - ElfTextVa) \div INSN_SIZE
        IN /\ elf'.phase # "failed"
           /\ elf.text[i + 1].opc = "call_imm"
           /\ U32(elf'.text[i + 1].imm) = key
           /\ OnlyImmChanged(i)
           /\ IF symbol.stype = "FUNC" /\ symbol.value # 0
              THEN /\ DOMAIN elf'.calls = DOMAIN elf.calls \cup {key}
                   /\ elf'.calls[key] = (symbol.value - ElfTextVa) \div INSN_SIZE
                   /\ \A k \in DOMAIN elf.calls \ {key} : elf'.calls[k] = elf.calls[k]
              ELSE elf'.calls = elf.calls]_vars

\* a call to an undefined function and a call to an object, both rewritten and
\* neither recorded
C14_Witness ==
  /\ elf.phase = "loaded" /\ Len(elf.relocs) = 2
  /\ elf.relocs[1].sym = 3 /\ elf.relocs[2].sym = 4
  /\ U32(elf.text[1].imm) = elf.hash[<< 3 >>]
  /\ U32(elf.text[2].imm) = elf.hash[<< 0 >>]
  /\ DOMAIN elf.calls = {}

\* C35: after a successful load every value in the function registry, whether
\* recorded by call rewriting or by an R_BPF_64_32 relocation, is an instruction
\* index inside the text: 0 <= index < text_length / 8.
C35_RegistryInText ==
  elf.phase = "loaded" =>
    \A k \in DOMAIN elf.calls : 0 <= elf.calls[k] /\ elf.calls[k] < Len(elf.text)

\* C36: load never indexes outside a section's bytes: a relocation whose site
\* leaves fewer than 8 bytes before the end of its section (16 bytes for a .text
\* wide-immediate pair) makes load return an error, with the sections as they
\* were.
C36_SiteChecked ==
  [][(/\ elf.phase = "relocate" /\ elf' # elf
      /\ get_relocations(elf.relocs) = "ok"
      /\ from_x86_relocation_type(CurrentReloc.rtype) = "R_BPF_64_RELATIVE"
      /\ FindSection(SectionInfos(elf), CurrentReloc.addr) >= 0
      /\ LET k == FindSection(SectionInfos(elf), CurrentReloc.addr)
             target_offset == CurrentReloc.addr - Section(SectionInfos(elf), k).va
         IN target_offset + (IF k = TEXT_SECTION_INDEX THEN 2 * INSN_SIZE ELSE 8)
              > Section(SectionInfos(elf), k).len)
     => /\ elf'.phase = "failed" /\ elf'.err # "panic"
        /\ elf'.text = elf.text /\ elf'.data = elf.data]_vars

\* C15: get_entrypoint_instruction_offset returns (entry - text base) / 8 only for
\* an entry address inside the text section and a multiple of the instruction size
\* from its start, so a returned index designates an instruction of the text; for
\* every other entry address it returns an error.
C15_EntrypointInText ==
  [][(elf.phase = "loaded" /\ elf.offset.err = "none" /\ elf'.offset.err # "none")
     => LET entry == elf.header.entry
            size == INSN_SIZE * Len(elf.text)
            inside == /\ ElfTextVa <= entry /\ entry < ElfTextVa + size
                      /\ (entry - ElfTextVa) % INSN_SIZE = 0
        IN /\ elf'.offset.ok <=> inside
           /\ elf'.offset.ok => /\ elf'.offset.index = (entry - ElfTextVa) \div INSN_SIZE
                                /\ elf'.offset.index < Len(elf.text)]_vars

\* C16: load fails for every ELF that is not class 64-bit, little-endian, SysV ABI,
\* machine BPF, type DYN with exactly one .text section; validate on a loaded image
\* leaves header and sections alone and passes exactly when the current header and
\* section list meet these conditions, so it passes again once a field is repaired.
C16_Validation ==
  [][LET Violates(h, secs) ==
           \/ h.ident_class # "Class64" \/ h.ident_endianness # "LittleEndian"
           \/ h.ident_abi # "SYSV" \/ h.machine # "BPF" \/ h.etype # "DYN"
           \/ Cardinality({ k \in 1..Len(secs) : secs[k] = ".text" }) # 1
     IN /\ (elf.phase = "validate" /\ Violates(elf.header, elf.sections))
            => elf'.phase = "failed"
        /\ (elf.phase = "loaded" /\ elf.valid = "none" /\ elf'.valid # "none")
            => /\ elf'.header = elf.header /\ elf'.sections = elf.sections
               /\ elf'.valid = "ok" <=> ~Violates(elf.header, elf.sections)]_vars

\* validate has rejected a loaded image whose ABI field was overwritten
C16_Witness ==
  /\ elf.phase = "loaded"
  /\ "valid" \in DOMAIN elf
  /\ elf.valid = "Incompatible ELF: wrong abi"
  /\ elf.header.ident_abi = "ARM"

\* C26: the pipeline is usable only in the order load, verify, optional JIT
\* compile, run: JIT compilation of an executable that has not passed verification
\* returns an error and yields no runnable code.
C26_VerifiedBeforeJit ==
  ("verified" \in DOMAIN elf /\ elf.phase \in {"compiling", "sealed"}) => elf.verified

\* C27: JIT code pages go from read-write to sealed to dropped: every write to
\* pc_section and text_section happens while all pages are read-write; a sealed
\* program has every page of both sections non-writable, text executable; drop, also
\* after a failed compilation, frees the pages with all of them read-write again.
C27_PageProtection ==
  [][LET Perms(sec) == { sec.pc_pages[k] : k \in DOMAIN sec.pc_pages }
                       \cup { sec.text_pages[k] : k \in DOMAIN sec.text_pages }
     IN /\ (elf'.pc # elf.pc \/ elf'.patched # elf.patched)
            => elf.phase = "compiling" /\ Perms(elf.sections) = {"rw"}
        /\ elf'.phase = "sealed"
            => /\ \A k \in DOMAIN elf'.sections.pc_pages : elf'.sections.pc_pages[k] = "r"
               /\ \A k \in DOMAIN elf'.sections.text_pages :
                    elf'.sections.text_pages[k] = "rx"
        /\ elf'.sections.freed => Perms(elf'.sections) = {"rw"}]_vars

\* C30: the remaining budget seen through the meter object never grows: every
\* amount the compiled code passes to consume at an upcall is non-negative and
\* is the number of instructions executed since the meter object was last
\* brought up to date (the start of the run or the previous upcall).
C30_MeterMonotone ==
  [][/\ jit'.mobj <= jit.mobj
     /\ (/\ JitCallAt("syscall") /\ cfg.enable_instruction_meter
         /\ ~MeterExceeded(TRUE, jit.meter, jit.pc))
          => /\ jit.mobj - jit'.mobj >= 0
             /\ jit.mobj - jit'.mobj = obs.since + 1
             /\ obs'.since = 0]_vars

\* a second upcall has been paid for: two instructions since the first
C30_Witness ==
  /\ cfg.enable_instruction_meter /\ jit.state = "run"
  /\ obs.since = 0 /\ jit.prev_meter = jit.mobj /\ budget - jit.mobj >= 4
  /\ jit.pc > 0 /\ InsnAt(jit.pc - 1).opc = "call_imm"
  /\ CallKind(InsnAt(jit.pc - 1).imm) = "syscall"

\* C31: every 32-bit ALU instruction leaves in its destination register the
\* 32-bit result zero-extended to 64 bits: the upper 32 bits are zero.
C31_ZeroExtended ==
  [][(JitAt(Alu32Ops \cup {"div32_reg", "mod32_reg"}) /\ jit'.state = "run")
       => jit'.reg[InsnAt(jit.pc).dst] < Half]_vars

\* C32: with fixed stack frames each bytecode call sets the callee's frame
\* pointer r10 to the caller's r10 plus stack_frame_size, starting from
\* MM_STACK_START + stack_frame_size in the entry frame.
C32_FramePointer ==
  [][/\ (jit.state = "run" /\ Len(jit.stack) = 0 /\ obs.returns = 0)
          => jit.reg[STACK_REG] = MM_STACK_START + cfg.stack_frame_size
     /\ (CallStep /\ jit'.state = "run")
          => jit'.reg[STACK_REG] = jit.reg[STACK_REG] + cfg.stack_frame_size]_vars

\* test_err_ldxdw_oob, test_err_ldxdw_nomem: ldxdw r0, [r1+6]; exit
OobLoad == AccessProgram("ldxdw", 1, 6)
OobViolation == ErrResult("AccessViolation", ELF_INSN_DUMP_OFFSET, MM_INPUT_START + 6)

JitStep(j) ==
  LET opc == InsnAt(j.pc).opc
  IN CASE opc \in AluOps -> JitAluStep(j)
       [] opc \in DivOps -> JitDivStep(j)
       [] opc = "lddw" -> JitLddwStep(j)
       [] opc \in LoadOps -> JitLoadStep(j)
       [] opc \in StoreOps -> JitStoreStep(j)
       [] opc = "ja" -> JitJaStep(j)
       [] opc \in CondOps -> JitJccStep(j)
       [] opc = "callx" -> emit_bpf_call(j, TRUE)
       [] opc = "exit" -> JitExitStep(j)
       [] opc = "call_imm" ->
            CASE CallKind(InsnAt(j.pc).imm) = "syscall" -> JitSyscallStep(j)
              [] CallKind(InsnAt(j.pc).imm) = "function" -> emit_bpf_call(j, FALSE)
              [] OTHER -> JitCallUnresolvedStep(j)

\* steps the run without tracing is followed for
RunFuel == 4 * MaxBudget

\* the compiled run of the same program, input and budget without tracing
RECURSIVE PlainRun(_, _)
PlainRun(j, fuel) ==
  IF j.state # "run" \/ fuel = 0 THEN j ELSE PlainRun(JitStep(j), fuel - 1)

ALIGN == 4
\* largest max_len of the buffers that are built
MaxLen == 2
\* usize is the 64-bit word; the counts handed to resize include its top values
USize == Word
AmBytes == {0, 1}
AmBuffers == UNION {[1..n -> AmBytes] : n \in 0..(MaxLen + 1)}
AmCounts == (0..(MaxLen + 1)) \cup {USize - 2, USize - 1}

\* addresses the allocator hands out for a Vec<u8> (layout alignment 1); a Vec
\* without capacity holds the dangling pointer 1
HeapAddrs == {8, 10, 12}
VecPtr(capacity, base) == IF capacity = 0 THEN 1 ELSE base

\* <*const u8>::align_offset(ALIGN)
align_offset(ptr) == (ALIGN - (ptr % ALIGN)) % ALIGN

\* AlignedMemory::get_mem: capacity max_len + ALIGN, then padding up to align_offset
get_mem(max_len, base) ==
  LET capacity == (max_len + ALIGN) % USize
      ptr == VecPtr(capacity, base)
      offset == align_offset(ptr)
  IN [ptr |-> ptr, capacity |-> capacity, align_offset |-> offset,
      mem |-> [k \in 1..offset |-> 0]]

\* AlignedMemory::get_mem_zeroed: vec![0; max_len] has capacity max_len, so the
\* resize to align_offset + max_len reallocates whenever align_offset is not 0
get_mem_zeroed(max_len, base, moved) ==
  LET ptr == VecPtr(max_len, base)
      offset == align_offset(ptr)
      length == (offset + max_len) % USize
  IN [ptr |-> IF length > max_len THEN moved ELSE ptr,
      capacity |-> IF length > max_len THEN length ELSE max_len,
      align_offset |-> offset,
      mem |-> [k \in 1..length |-> 0]]

new_with_data(data, base) ==
  LET m == get_mem(Len(data), base)
  IN [max_len |-> Len(data), align_offset |-> m.align_offset, mem |-> m.mem \o data,
      ptr |-> m.ptr, capacity |-> m.capacity]

\* AlignedMemory::len, in usize
len(am) == (Len(am.mem) - am.align_offset) % USize

\* AlignedMemory::as_slice: its address and its bytes
as_slice(am) ==
  [addr |-> am.ptr + am.align_offset,
   bytes |-> SubSeq(am.mem, am.align_offset + 1, Len(am.mem))]

\* AlignedMemory::resize on a build without overflow checks: Vec::resize to a
\* shorter length truncates
resize(am, num, value) ==
  LET length == (Len(am.mem) + num) % USize
  IN IF length > (am.align_offset + am.max_len) % USize
     THEN [am |-> am, result |-> "err"]
     ELSE [am |-> [am EXCEPT !.mem = [k \in 1..length |->
                                        IF k <= Len(am.mem) THEN am.mem[k] ELSE value]],
           result |-> "ok"]

\* <AlignedMemory as Write>::write
write(am, buf) ==
  IF (Len(am.mem) + Len(buf)) % USize > (am.align_offset + am.max_len) % USize
  THEN [am |-> am, result |-> "err"]
  ELSE [am |-> [am EXCEPT !.mem = @ \o buf], result |-> "ok"]

AmState(am, op, buf, num, value, result) ==
  [am |-> am, op |-> op, buf |-> buf, num |-> num, value |-> value, result |-> result]

\* AlignedMemory::new(max_len)
InitAlignedMemory ==
  /\ VmIdle
  /\ \E max_len \in 0..MaxLen, base \in HeapAddrs :
       LET m == get_mem(max_len, base)
       IN elf = AmState([max_len |-> max_len, align_offset |-> m.align_offset,
                         mem |-> m.mem, ptr |-> m.ptr, capacity |-> m.capacity],
                        "new", << >>, max_len, 0, "ok")

\* AlignedMemory::new_with_size(len)
AmNewWithSize ==
  /\ \E length \in 0..MaxLen, base \in HeapAddrs, moved \in HeapAddrs :
       LET m == get_mem_zeroed(length, base, moved)
       IN elf' = AmState([max_len |-> length, align_offset |-> m.align_offset,
                          mem |-> m.mem, ptr |-> m.ptr, capacity |-> m.capacity],
                         "new_with_size", << >>, length, 0, "ok")
  /\ UNCHANGED vmvars

AmNewWithData ==
  /\ \E data \in AmBuffers, base \in HeapAddrs :
       /\ Len(data) <= MaxLen
       /\ elf' = AmState(new_with_data(data, base), "new_with_data", data, 0, 0, "ok")
  /\ UNCHANGED vmvars

\* From<T: AsRef<[u8]>>
AmFrom ==
  /\ \E bytes \in AmBuffers, base \in HeapAddrs :
       /\ Len(bytes) <= MaxLen
       /\ elf' = AmState(new_with_data(bytes, base), "from", bytes, 0, 0, "ok")
  /\ UNCHANGED vmvars

\* Clone: the clone takes the place of the buffer
AmClone ==
  /\ Len(elf.am.mem) >= elf.am.align_offset
  /\ \E base \in HeapAddrs :
       elf' = AmState(new_with_data(as_slice(elf.am).bytes, base), "clone",
                      as_slice(elf.am).bytes, 0, 0, "ok")
  /\ UNCHANGED vmvars

AmWrite ==
  /\ \E buf \in AmBuffers :
       LET r == write(elf.am, buf)
       IN elf' = AmState(r.am, "write", buf, Len(buf), 0, r.result)
  /\ UNCHANGED vmvars

\* where mem.len() + num leaves usize, a build with overflow checks panics and
\* one without wraps
AmResize ==
  /\ \E num \in AmCounts, value \in AmBytes :
       \/ LET r == resize(elf.am, num, value)
          IN elf' = AmState(r.am, "resize", << >>, num, value, r.result)
       \/ /\ Len(elf.am.mem) + num >= USize
          /\ elf' = AmState(elf.am, "resize", << >>, num, value, "panic")
  /\ UNCHANGED vmvars

NextAlignedMemory ==
  \/ AmNewWithSize
  \/ AmNewWithData
  \/ AmFrom
  \/ AmClone
  \/ AmWrite
  \/ AmResize

SpecAlignedMemory == InitAlignedMemory /\ [][NextAlignedMemory]_vars

\* C28: write(buf) and resize(n, v) succeed exactly when len() + n does not
\* exceed the capacity fixed at construction, and then append the whole buffer
\* (n copies of v) at the end; otherwise they return an error and leave length
\* and contents unchanged; a zero-length write succeeds at full capacity.
C28_WriteResize ==
  [][elf'.op \in {"write", "resize"} =>
       IF len(elf.am) + elf'.num <= elf.am.max_len
       THEN /\ elf'.result = "ok"
            /\ len(elf'.am) = len(elf.am) + elf'.num
            /\ Len(elf'.am.mem) >= Len(elf.am.mem)
            /\ \A k \in 1..Len(elf'.am.mem) :
                 elf'.am.mem[k] = IF k <= Len(elf.am.mem) THEN elf.am.mem[k]
                                  ELSE IF elf'.op = "write"
                                       THEN elf'.buf[k - Len(elf.am.mem)]
                                       ELSE elf'.value
       ELSE /\ elf'.result = "err"
            /\ elf'.am.mem = elf.am.mem]_vars

\* C29: the first byte of as_slice() lies at a multiple of ALIGN for every
\* AlignedMemory, however it was built, and stays there after write and resize.
C29_Aligned ==
  "am" \in DOMAIN elf => as_slice(elf.am).addr % ALIGN = 0

\* C39: a clone behaves like the original from then on: the same contents and
\* the same remaining capacity, so every write and resize succeeds or fails on
\* both alike and leaves the same contents.
C39_CloneEquivalent ==
  [][elf'.op = "clone" =>
       /\ as_slice(elf'.am).bytes = as_slice(elf.am).bytes
       /\ elf'.am.max_len - len(elf'.am) = elf.am.max_len - len(elf.am)
       /\ \A buf \in AmBuffers :
            /\ write(elf'.am, buf).result = write(elf.am, buf).result
            /\ as_slice(write(elf'.am, buf).am).bytes = as_slice(write(elf.am, buf).am).bytes
       /\ \A num \in 0..(MaxLen + 1) :
            /\ resize(elf'.am, num, 1).result = resize(elf.am, num, 1).result
            /\ as_slice(resize(elf'.am, num, 1).am).bytes
                 = as_slice(resize(elf.am, num, 1).am).bytes]_vars

\* C40: resize(num, value) never shortens the buffer or passes the capacity:
\* for every num up to the largest usize it fails and len() is unchanged, or it
\* succeeds, len() grows by exactly num and len() <= capacity.
C40_ResizeNeverShortens ==
  [][elf'.op = "resize" =>
       \/ elf'.result = "err" /\ len(elf'.am) = len(elf.am)
       \/ /\ elf'.result = "ok"
          /\ Len(elf'.am.mem) = Len(elf.am.mem) + elf'.num
          /\ Len(elf'.am.mem) <= elf'.am.align_offset + elf'.am.max_len]_vars


----------------------------------------------------------------------------
(* Built-in syscalls (syscalls.rs): BpfRand and BpfStrCmp, called directly *)

\* libc::rand yields a c_int in 0..RAND_MAX
RAND_MAX == Half \div 2 - 1
RandValues == {0, 5, RAND_MAX}
RandArgs == {0, 3, 6, Word - 1}

\* BpfRand::call(min, max) with rand() yielding r1 then r2: the set of outcomes.
\* max + 1 leaves u64 when max is u64::MAX: a build with overflow checks
\* panics, one without wraps to 0, and 0 - min wraps in turn; a zero modulus
\* panics in every build.
BpfRand_call(min, max, r1, r2) ==
  LET n == W(W(r1 * Half) + r2)
  IN IF min < max
     THEN IF max + 1 < Word
          THEN { [result |-> "ok", value |-> W((n % (max + 1 - min)) + min)] }
          ELSE { [result |-> "panic", value |-> 0] } \cup
               { [result |-> "ok", value |-> W((n % W(Word - min)) + min)] : x \in {min} \ {0} }
     ELSE { [result |-> "ok", value |-> n] }

\* host memory of the caller: the cells around the mapped slices hold whatever
\* the host put there
StrHostSize == 5
StrBytes == {0, 1}
StrHosts == [0..(StrHostSize - 1) -> StrBytes]
StrLayouts ==
  { << [host_base |-> 1, vm_base |-> 16, len |-> 2, writable |-> FALSE] >>,
    << [host_base |-> 0, vm_base |-> 16, len |-> 2, writable |-> FALSE],
       [host_base |-> 3, vm_base |-> 32, len |-> 2, writable |-> FALSE] >> }
StrArgs == {0, 16, 17, 18, 32}

\* host addresses the region table covers
MappedHost(regions) ==
  UNION { regions[i].host_base .. (regions[i].host_base + regions[i].len - 1) :
          i \in 1..Len(regions) }

\* MemoryMapping::map(AccessType::Load, vm_addr, 1) over a region table
MapLoadByte(regions, vm_addr) ==
  LET hits == { i \in 1..Len(regions) : RegionHit(regions[i], "Load", vm_addr, 1) }
  IN IF hits = {}
     THEN [ok |-> FALSE, host |-> 0]
     ELSE LET r == regions[CHOOSE i \in hits : TRUE]
          IN [ok |-> TRUE, host |-> r.host_base + (vm_addr - r.vm_base)]

RECURSIVE strcmp(_, _, _, _)
\* the unsafe block of BpfStrCmp::call: walk both host pointers while the bytes
\* are equal and not NUL; a read past the modelled host cells faults
strcmp(host, a, b, reads) ==
  IF a \notin DOMAIN host \/ b \notin DOMAIN host
  THEN [result |-> "fault", value |-> 0, reads |-> reads \cup {a, b}]
  ELSE LET a_val == host[a]
           b_val == host[b]
       IN IF a_val = b_val /\ a_val # 0 /\ b_val # 0
          THEN strcmp(host, a + 1, b + 1, reads \cup {a, b})
          ELSE [result |-> "ok",
                value |-> IF a_val >= b_val THEN a_val - b_val ELSE b_val - a_val,
                reads |-> reads \cup {a, b}]

\* BpfStrCmp::call(arg1, arg2)
BpfStrCmp_call(regions, host, arg1, arg2) ==
  IF arg1 = 0 \/ arg2 = 0
  THEN [result |-> "ok", value |-> Word - 1, reads |-> {}]
  ELSE LET a == MapLoadByte(regions, arg1)
           b == MapLoadByte(regions, arg2)
       IN IF ~a.ok THEN [result |-> "AccessViolation", value |-> arg1, reads |-> {}]
          ELSE IF ~b.ok THEN [result |-> "AccessViolation", value |-> arg2, reads |-> {}]
          ELSE strcmp(host, a.host, b.host, {})

SysState(op, arg1, arg2, regions, host, r) ==
  [op |-> op, arg1 |-> arg1, arg2 |-> arg2, regions |-> regions, host |-> host,
   result |-> r.result, value |-> r.value, reads |-> r.reads]

InitSyscalls ==
  /\ VmIdle
  /\ elf = SysState("none", 0, 0, << >>, << >>, [result |-> "ok", value |-> 0, reads |-> {}])

BpfRandCall ==
  /\ \E min \in RandArgs, max \in RandArgs, r1 \in RandValues, r2 \in RandValues :
       \E r \in BpfRand_call(min, max, r1, r2) :
         elf' = SysState("rand", min, max, << >>, << r1, r2 >>,
                         [result |-> r.result, value |-> r.value, reads |-> {}])
  /\ UNCHANGED vmvars

BpfStrCmpCall ==
  /\ \E regions \in StrLayouts, host \in StrHosts, arg1 \in StrArgs, arg2 \in StrArgs :
       elf' = SysState("strcmp", arg1, arg2, regions, host,
                       BpfStrCmp_call(regions, host, arg1, arg2))
  /\ UNCHANGED vmvars

NextSyscalls ==
  \/ BpfRandCall
  \/ BpfStrCmpCall

SpecSyscalls == InitSyscalls /\ [][NextSyscalls]_vars

\* C34: BpfRand returns a value n with min <= n <= max for all arguments with
\* min <= max, whatever the random source yields.
C34_RandInRange ==
  (elf.op = "rand" /\ elf.arg1 <= elf.arg2) =>
    /\ elf.result = "ok"
    /\ elf.arg1 <= elf.value
    /\ elf.value <= elf.arg2

\* C37: BpfStrCmp reads only host bytes of mapped regions, for all pairs of
\* argument addresses and all region layouts, strings with no NUL byte before
\* the end of their region included.
C37_ReadsMapped ==
  elf.op = "strcmp" => elf.reads \subseteq MappedHost(elf.regions)

====
